---- MODULE Spec2Model ----
(***************************************************************************)
(* A model of the trading engine's ledger: the Checking and Investment     *)
(* accounts (src/src/bank/accounts.rs), the transaction log                *)
(* (src/src/bank/transactions.rs) and the Broker with its dividend sweep   *)
(* (src/src/brokerage/mod.rs).                                             *)
(*                                                                         *)
(* Money, prices and quantities are f64 in the source.  The model keeps    *)
(* them as integers (every value it draws is exactly representable) and    *)
(* keeps average_cost_per_unit, the one quotient, as an extended rational  *)
(* with the IEEE special values a division by zero produces.               *)
(* Quantities are drawn with either sign and zero, since the source       *)
(* validates none of them; NaN and infinite arguments are not drawn.        *)
(***************************************************************************)
EXTENDS Integers, Sequences, FiniteSets, TLC

\* ------------------------------------------------------------------ bounds
\* Largest number of transactions the three direct account operations and the
\* broker's trades may append, over all accounts together.
MaxOps == 4
\* Largest number of transactions the deposits, withdrawals and trades made
\* beside the broker's sweeps may append.
MaxTrades == 2
\* A sweep starts only while the logs hold fewer Dividend transactions.
MaxDividends == 2
\* Largest number of calls on the Bank's registry.
MaxBankOps == 4
\* Largest number of fetches through the price cache.
MaxFetches == 3
\* The wall clock stops at this minute.
MaxClock == 40
\* Largest number of accounts of a Bank that is written to a String.
MaxMembers == 2
\* Calls made on each account of a pair given the same calls.
MaxPairOps == 3
\* Calls made on the lot-based account.
MaxLotOps == 4

\* ------------------------------------------------------------- input sets
Symbols == {"AAPL"}
\* deposit / withdraw amounts
Amounts == {1, 2}
\* quantity: f64 is not validated by purchase_investment, sell_investment,
\* Broker::buy or Broker::sell, so zero and negative values are inputs too.
Quantities == {-1, 0, 1, 2}
Prices == {1, 2}
\* ids of the Investment accounts of the Bank, and one id no account has
InvestmentIds == {1, 2}
UnknownIds == {9}
\* calendar days
Days == {0, 1, 2}
\* Option::None for an Option<NaiveDate>
NoDate == -1

\* ------------------------------------------------ f64 quotients (avg cost)
Abs(n) == IF n < 0 THEN -n ELSE n

RECURSIVE Gcd(_, _)
Gcd(a, b) == IF b = 0 THEN a ELSE Gcd(b, a % b)

\* a finite value n/d, reduced, d > 0
Fin(n, d) ==
    LET s == IF d < 0 THEN -1 ELSE 1
        g == Gcd(Abs(n), Abs(d))
    IN  [k |-> "fin", n |-> (s * n) \div g, d |-> (s * d) \div g]

NaN == [k |-> "nan", n |-> 0, d |-> 1]
PInf == [k |-> "inf", n |-> 1, d |-> 1]
NInf == [k |-> "inf", n |-> -1, d |-> 1]
Real(n) == Fin(n, 1)

\* x * q for an f64 x and an integral q
FMul(x, q) ==
    CASE x.k = "nan" -> NaN
      [] x.k = "inf" -> IF q = 0 THEN NaN
                        ELSE IF (q > 0) = (x.n > 0) THEN PInf ELSE NInf
      [] OTHER -> Fin(x.n * q, x.d)

\* x + c for an f64 x and an integral c
FAdd(x, c) ==
    CASE x.k = "nan" -> NaN
      [] x.k = "inf" -> x
      [] OTHER -> Fin(x.n + c * x.d, x.d)

\* x / q for an f64 x and an integral q (q = 0 is +0.0)
FDiv(x, q) ==
    CASE x.k = "nan" -> NaN
      [] x.k = "inf" -> IF q >= 0 THEN x ELSE IF x.n > 0 THEN NInf ELSE PInf
      [] OTHER -> IF q = 0
                  THEN IF x.n > 0 THEN PInf ELSE IF x.n < 0 THEN NInf ELSE NaN
                  ELSE Fin(x.n, x.d * q)

\* ------------------------------------------------------------ transactions
\* chrono::Utc::now(): the instant a Deposit, Withdraw, Purchase or Sale is
\* stamped with.  No operation reads the stamp of such a transaction back.
UtcNow == [day |-> 2, tod |-> 1]

\* TransactionType: the unit variants carry no asset and no quantity
TransactionType(kind, asset, quantity) ==
    [kind |-> kind, asset |-> asset, quantity |-> quantity]
Deposit == TransactionType("Deposit", "", 0)
Withdraw == TransactionType("Withdraw", "", 0)

\* impl PartialEq for TransactionType
TransactionType_eq(a, b) ==
    CASE a.kind = "Deposit" /\ b.kind = "Deposit" -> TRUE
      [] a.kind = "Withdraw" /\ b.kind = "Withdraw" -> TRUE
      [] a.kind = "Sale" /\ b.kind = "Sale" ->
            a.asset = b.asset /\ a.quantity = b.quantity
      [] a.kind = "Purchase" /\ b.kind = "Purchase" ->
            a.asset = b.asset /\ a.quantity = b.quantity
      [] a.kind = "Dividend" /\ b.kind = "Dividend" ->
            a.asset = b.asset /\ a.quantity = b.quantity
      [] OTHER -> FALSE

\* Transaction::new
Transaction_new(transaction_type, amount, date, description) ==
    [transaction_type |-> transaction_type, amount |-> amount,
     date |-> date, description |-> description]

\* -------------------------------------------------------------- results
Ok(v) == [ok |-> TRUE, err |-> "", val |-> v]
Err(e) == [ok |-> FALSE, err |-> e, val |-> 0]

\* ------------------------------------------------------ CheckingAccount
CheckingAccount_new(id, balance) ==
    [id |-> id, balance |-> balance, transactions |-> <<>>]

CheckingAccount_deposit(self, amount) ==
    LET acc == [self EXCEPT
                  !.balance = @ + amount,
                  !.transactions =
                      Append(@, Transaction_new(Deposit, amount, UtcNow, <<>>))]
    IN  [acc |-> acc, res |-> Ok(acc.balance)]

CheckingAccount_withdraw(self, amount) ==
    IF self.balance < amount
    THEN [acc |-> self, res |-> Err("InsufficientFunds")]
    ELSE LET acc == [self EXCEPT
                       !.balance = @ - amount,
                       !.transactions =
                           Append(@, Transaction_new(Withdraw, amount, UtcNow, <<>>))]
         IN  [acc |-> acc, res |-> Ok(acc.balance)]

\* ---------------------------------------------------- InvestmentAccount
\* Holding::new(average_cost_per_unit, quantity, symbol)
Holding_new(average_cost_per_unit, quantity, symbol) ==
    [average_cost_per_unit |-> average_cost_per_unit,
     quantity |-> quantity, asset |-> symbol]

\* assets: HashMap<String, Holding>, a function on the symbols held
NoAssets == [s \in {} |-> Holding_new(NaN, 0, "")]

InvestmentAccount_new(id, balance) ==
    [id |-> id, balance |-> balance, assets |-> NoAssets, transactions |-> <<>>]

\* deposit replacing the log by the one transaction it makes
InvestmentAccount_deposit_resets_log(self, amount) ==
    LET acc == [self EXCEPT
                  !.balance = @ + amount,
                  !.transactions =
                      << Transaction_new(Deposit, amount, UtcNow, <<>>) >>]
    IN  [acc |-> acc, res |-> Ok(acc.balance)]

InvestmentAccount_deposit(self, amount) ==
    LET acc == [self EXCEPT
                  !.balance = @ + amount,
                  !.transactions =
                      Append(@, Transaction_new(Deposit, amount, UtcNow, <<>>))]
    IN  [acc |-> acc, res |-> Ok(acc.balance)]

\* withdraw pushing its transaction before the funds check
InvestmentAccount_withdraw_push_first(self, amount) ==
    LET logged == [self EXCEPT
                     !.transactions =
                         Append(@, Transaction_new(Withdraw, amount, UtcNow, <<>>))]
    IN  IF self.balance < amount
        THEN [acc |-> logged, res |-> Err("InsufficientFunds")]
        ELSE [acc |-> [logged EXCEPT !.balance = @ - amount],
              res |-> Ok(self.balance - amount)]

InvestmentAccount_withdraw(self, amount) ==
    IF self.balance < amount
    THEN [acc |-> self, res |-> Err("InsufficientFunds")]
    ELSE LET acc == [self EXCEPT
                       !.transactions =
                           Append(@, Transaction_new(Withdraw, amount, UtcNow, <<>>)),
                       !.balance = @ - amount]
         IN  [acc |-> acc, res |-> Ok(acc.balance)]

\* HashMap::insert / HashMap::remove on assets
MapInsert(m, key, v) ==
    [s \in DOMAIN m \cup {key} |-> IF s = key THEN v ELSE m[s]]
MapRemove(m, key) == [s \in DOMAIN m \ {key} |-> m[s]]

\* purchase_investment debiting the balance before the funds check
purchase_investment_debit_first(self, symbol, price, quantity) ==
    LET total_cost == price * quantity
    IN  IF self.balance < total_cost
        THEN [acc |-> [self EXCEPT !.balance = @ - total_cost],
              res |-> Err("InsufficientFunds")]
        ELSE LET assets ==
                   IF symbol \in DOMAIN self.assets
                   THEN LET holding == self.assets[symbol]
                        IN  MapInsert(self.assets, symbol,
                              [holding EXCEPT
                                 !.average_cost_per_unit =
                                     FDiv(FAdd(FMul(@, holding.quantity), total_cost),
                                          holding.quantity + quantity),
                                 !.quantity = @ + quantity])
                   ELSE MapInsert(self.assets, symbol,
                          Holding_new(FDiv(Real(total_cost), quantity), quantity, symbol))
                 transaction ==
                   Transaction_new(TransactionType("Purchase", symbol, quantity),
                                   total_cost, UtcNow, <<>>)
             IN  [acc |-> [self EXCEPT
                             !.balance = @ - total_cost,
                             !.assets = assets,
                             !.transactions = Append(@, transaction)],
                  res |-> Ok(0)]

\* purchase_investment logging the unit price in place of the total cost
purchase_investment_logs_price(self, symbol, price, quantity) ==
    LET total_cost == price * quantity
    IN  IF self.balance < total_cost
        THEN [acc |-> self, res |-> Err("InsufficientFunds")]
        ELSE LET assets ==
                   IF symbol \in DOMAIN self.assets
                   THEN LET holding == self.assets[symbol]
                        IN  MapInsert(self.assets, symbol,
                              [holding EXCEPT
                                 !.average_cost_per_unit =
                                     FDiv(FAdd(FMul(@, holding.quantity), total_cost),
                                          holding.quantity + quantity),
                                 !.quantity = @ + quantity])
                   ELSE MapInsert(self.assets, symbol,
                          Holding_new(FDiv(Real(total_cost), quantity), quantity, symbol))
                 transaction ==
                   Transaction_new(TransactionType("Purchase", symbol, quantity),
                                   price, UtcNow, <<>>)
             IN  [acc |-> [self EXCEPT
                             !.balance = @ - total_cost,
                             !.assets = assets,
                             !.transactions = Append(@, transaction)],
                  res |-> Ok(0)]

\* purchase_investment taking the last price paid as the average cost
purchase_investment_last_price(self, symbol, price, quantity) ==
    LET total_cost == price * quantity
    IN  IF self.balance < total_cost
        THEN [acc |-> self, res |-> Err("InsufficientFunds")]
        ELSE LET assets ==
                   IF symbol \in DOMAIN self.assets
                   THEN LET holding == self.assets[symbol]
                        IN  MapInsert(self.assets, symbol,
                              [holding EXCEPT
                                 !.average_cost_per_unit = Real(price),
                                 !.quantity = @ + quantity])
                   ELSE MapInsert(self.assets, symbol,
                          Holding_new(FDiv(Real(total_cost), quantity), quantity, symbol))
                 transaction ==
                   Transaction_new(TransactionType("Purchase", symbol, quantity),
                                   total_cost, UtcNow, <<>>)
             IN  [acc |-> [self EXCEPT
                             !.balance = @ - total_cost,
                             !.assets = assets,
                             !.transactions = Append(@, transaction)],
                  res |-> Ok(0)]

purchase_investment(self, symbol, price, quantity) ==
    LET total_cost == price * quantity
    IN  IF self.balance < total_cost
        THEN [acc |-> self, res |-> Err("InsufficientFunds")]
        ELSE LET assets ==
                   IF symbol \in DOMAIN self.assets
                   THEN LET holding == self.assets[symbol]
                        IN  MapInsert(self.assets, symbol,
                              [holding EXCEPT
                                 !.average_cost_per_unit =
                                     FDiv(FAdd(FMul(@, holding.quantity), total_cost),
                                          holding.quantity + quantity),
                                 !.quantity = @ + quantity])
                   ELSE MapInsert(self.assets, symbol,
                          Holding_new(FDiv(Real(total_cost), quantity), quantity, symbol))
                 transaction ==
                   Transaction_new(TransactionType("Purchase", symbol, quantity),
                                   total_cost, UtcNow, <<>>)
             IN  [acc |-> [self EXCEPT
                             !.balance = @ - total_cost,
                             !.assets = assets,
                             !.transactions = Append(@, transaction)],
                  res |-> Ok(0)]

\* sell_investment resetting the average cost to the sale price
sell_investment_reprices(self, symbol, price, quantity) ==
    IF symbol \notin DOMAIN self.assets
    THEN [acc |-> self, res |-> Err("InsufficientQuantity")]
    ELSE LET holding == self.assets[symbol]
         IN  IF holding.quantity < quantity
             THEN [acc |-> self, res |-> Err("InsufficientQuantity")]
             ELSE LET total_cost == price * quantity
                      left == holding.quantity - quantity
                      assets ==
                        IF left = 0
                        THEN MapRemove(self.assets, symbol)
                        ELSE MapInsert(self.assets, symbol,
                                       [holding EXCEPT !.quantity = left,
                                          !.average_cost_per_unit = Real(price)])
                      transaction ==
                        Transaction_new(TransactionType("Sale", symbol, quantity),
                                        total_cost, UtcNow, <<>>)
                  IN  [acc |-> [self EXCEPT
                                  !.balance = @ + total_cost,
                                  !.assets = assets,
                                  !.transactions = Append(@, transaction)],
                       res |-> Ok(0)]

sell_investment(self, symbol, price, quantity) ==
    IF symbol \notin DOMAIN self.assets
    THEN [acc |-> self, res |-> Err("InsufficientQuantity")]
    ELSE LET holding == self.assets[symbol]
         IN  IF holding.quantity < quantity
             THEN [acc |-> self, res |-> Err("InsufficientQuantity")]
             ELSE LET total_cost == price * quantity
                      left == holding.quantity - quantity
                      assets ==
                        IF left = 0
                        THEN MapRemove(self.assets, symbol)
                        ELSE MapInsert(self.assets, symbol,
                                       [holding EXCEPT !.quantity = left])
                      transaction ==
                        Transaction_new(TransactionType("Sale", symbol, quantity),
                                        total_cost, UtcNow, <<>>)
                  IN  [acc |-> [self EXCEPT
                                  !.balance = @ + total_cost,
                                  !.assets = assets,
                                  !.transactions = Append(@, transaction)],
                       res |-> Ok(0)]

\* --------------------------------------------------------- dates and times
\* DateTime: a calendar day and a time of day; NaiveDate: a calendar day
DateTime(day, tod) == [day |-> day, tod |-> tod]
date_naive(dt) == dt.day
\* NaiveDate::and_hms_opt(0, 0, 0) read as UTC
and_hms_opt_0(day) == DateTime(day, 0)
\* entry.date <= date_limit
DateTimeLe(a, b) == a.day < b.day \/ (a.day = b.day /\ a.tod <= b.tod)

\* DateTime::to_rfc3339 and DateTime::parse_from_rfc3339
to_rfc3339(dt) == <<"rfc3339", dt.day, dt.tod>>
parse_from_rfc3339(text) ==
    IF Len(text) = 3 /\ text[1] = "rfc3339"
    THEN [ok |-> TRUE, val |-> DateTime(text[2], text[3])]
    ELSE [ok |-> FALSE, val |-> DateTime(0, 0)]

\* ------------------------------------------------- the provider's answers
None == [some |-> FALSE, val |-> 0]
SomeOf(v) == [some |-> TRUE, val |-> v]

\* TimeSeries.entries of the five-minute intraday series, oldest first
TimeSeriesEntries(symbol) ==
    << [date |-> DateTime(0, 1), close |-> 1, adjusted_close |-> None],
       [date |-> DateTime(1, 1), close |-> 3, adjusted_close |-> SomeOf(2)] >>

\* SearchResults.entries of a ticker search
SearchEntries(query) ==
    << [symbol |-> query, market_open |-> 1, market_close |-> 2] >>

\* DividendResults.data: the dividend history of a symbol
DividendData(symbol) ==
    << [payment_date |-> 1, amount |-> 1],
       [payment_date |-> 2, amount |-> 2],
       [payment_date |-> NoDate, amount |-> 1] >>

\* ------------------------------------------------------------------ Broker
\* get_price taking the first of the entries it kept
get_price_first(entries, date_limit) ==
    LET kept == SelectSeq(entries,
                  LAMBDA entry : IF date_limit.some
                                 THEN DateTimeLe(entry.date, date_limit)
                                 ELSE TRUE)
    IN  IF Len(kept) = 0
        THEN Err("Cannot find price")
        ELSE LET entry == kept[1]
             IN  Ok(IF entry.adjusted_close.some
                    THEN entry.adjusted_close.val ELSE entry.close)

\* Broker::get_price on the series the provider returned
get_price(entries, date_limit) ==
    LET kept == SelectSeq(entries,
                  LAMBDA entry : IF date_limit.some
                                 THEN DateTimeLe(entry.date, date_limit)
                                 ELSE TRUE)
    IN  IF Len(kept) = 0
        THEN Err("Cannot find price")
        ELSE LET entry == kept[Len(kept)]
             IN  Ok(IF entry.adjusted_close.some
                    THEN entry.adjusted_close.val ELSE entry.close)

\* Broker::get_ticker on the search results the provider returned
get_ticker(entries, symbol) ==
    LET tickers == SelectSeq(entries, LAMBDA entry : entry.symbol = symbol)
    IN  IF Len(tickers) # 1
        THEN [ok |-> FALSE, err |-> "No ticker found", val |-> <<>>]
        ELSE [ok |-> TRUE, err |-> "", val |-> tickers[1]]

\* is_market_open treating the opening and the closing time as closed
is_market_open_exclusive(ticker, date_limit) ==
    IF date_limit.tod <= ticker.market_open \/ date_limit.tod >= ticker.market_close
    THEN FALSE
    ELSE TRUE

\* Broker::is_market_open once the ticker is known
is_market_open(ticker, date_limit) ==
    IF date_limit.tod < ticker.market_open \/ date_limit.tod > ticker.market_close
    THEN FALSE
    ELSE TRUE

\* Bank::get_investment_account_mut
get_investment_account_mut(accounts, id) ==
    IF id \in DOMAIN accounts THEN Ok(id) ELSE Err("AccountNotFound")

\* buy returning the balance the account had before the purchase
buy_locked_balance_before(accounts, symbol, price, quantity, account_id) ==
    LET account == get_investment_account_mut(accounts, account_id)
    IN  IF ~account.ok THEN [accounts |-> accounts, res |-> account]
        ELSE LET r == purchase_investment(accounts[account_id], symbol, price, quantity)
             IN  IF ~r.res.ok THEN [accounts |-> accounts, res |-> r.res]
                 ELSE [accounts |-> [accounts EXCEPT ![account_id] = r.acc],
                       res |-> Ok(accounts[account_id].balance)]

\* Broker::buy, from the lock to the return
buy_locked(accounts, symbol, price, quantity, account_id) ==
    LET account == get_investment_account_mut(accounts, account_id)
    IN  IF ~account.ok THEN [accounts |-> accounts, res |-> account]
        ELSE LET r == purchase_investment(accounts[account_id], symbol, price, quantity)
             IN  IF ~r.res.ok THEN [accounts |-> accounts, res |-> r.res]
                 ELSE [accounts |-> [accounts EXCEPT ![account_id] = r.acc],
                       res |-> Ok(r.acc.balance)]

\* Broker::sell, from the lock to the return
sell_locked(accounts, symbol, price, quantity, account_id) ==
    LET account == get_investment_account_mut(accounts, account_id)
    IN  IF ~account.ok THEN [accounts |-> accounts, res |-> account]
        ELSE LET r == sell_investment(accounts[account_id], symbol, price, quantity)
             IN  IF ~r.res.ok THEN [accounts |-> accounts, res |-> r.res]
                 ELSE [accounts |-> [accounts EXCEPT ![account_id] = r.acc],
                       res |-> Ok(r.acc.balance)]

\* what a task that panicked on Result::unwrap ends with
UnwrapPanic == "panic: called Result::unwrap() on an Err value"

\* Broker::check_earliest_dividend: the file after the call and the date
\* returned; io_ok is whether the write, or the read, of the file succeeds
check_earliest_dividend(file, date_time, io_ok) ==
    IF ~file.exists
    THEN IF io_ok
         THEN [file |-> [exists |-> TRUE, text |-> to_rfc3339(date_time)],
               res |-> [ok |-> TRUE, err |-> "", val |-> date_time]]
         ELSE [file |-> file,
               res |-> [ok |-> FALSE, err |-> "io", val |-> date_time]]
    ELSE IF ~io_ok
         THEN [file |-> file,
               res |-> [ok |-> FALSE, err |-> UnwrapPanic, val |-> date_time]]
         ELSE LET date == parse_from_rfc3339(file.text)
              IN  [file |-> file,
                   res |-> [ok |-> date.ok,
                            err |-> IF date.ok THEN "" ELSE "InvalidData",
                            val |-> date.val]]

\* parse_valid_dividend_data keeping the dividends paid on the watermark's day
parse_valid_dividend_data_from_watermark(data, last_loaded, date) ==
    SelectSeq(data,
      LAMBDA dividend :
        IF dividend.payment_date # NoDate
        THEN /\ dividend.payment_date >= date_naive(last_loaded)
             /\ dividend.payment_date <= date_naive(date)
        ELSE FALSE)

\* Broker::parse_valid_dividend_data on the history the provider returned
parse_valid_dividend_data(data, last_loaded, date) ==
    SelectSeq(data,
      LAMBDA dividend :
        IF dividend.payment_date # NoDate
        THEN /\ dividend.payment_date > date_naive(last_loaded)
             /\ dividend.payment_date <= date_naive(date)
        ELSE FALSE)

\* a look-up in valid_dividend_data_memoized that never finds the symbol
memoized_never(memo, symbol) == FALSE

\* valid_dividend_data_memoized.get(symbol) is Some
memoized(memo, symbol) == symbol \in DOMAIN memo

\* the payout without the dividend's amount per share
payout_of_quantity(holding, dividend) == holding.quantity

\* the payout of one dividend on one holding
payout_of(holding, dividend) == holding.quantity * dividend.amount

\* the look-up of a paid dividend comparing against the day after the payment
already_paid_other_day(transactions, holding, dividend) ==
    \E i \in DOMAIN transactions :
       /\ TransactionType_eq(transactions[i].transaction_type,
            TransactionType("Dividend", holding.asset, holding.quantity))
       /\ date_naive(transactions[i].date) = dividend.payment_date + 1

\* whether the log already holds the dividend of this holding on this date
already_paid(transactions, holding, dividend) ==
    LET holding_filtered_transactions ==
          SelectSeq(transactions,
            LAMBDA transaction :
              TransactionType_eq(transaction.transaction_type,
                TransactionType("Dividend", holding.asset, holding.quantity)))
        dividend_transactions ==
          SelectSeq(holding_filtered_transactions,
            LAMBDA transaction :
              date_naive(transaction.date) = dividend.payment_date)
    IN  Len(dividend_transactions) # 0

\* the transactions one holding adds to transactions_to_add
RECURSIVE holding_dividends(_, _, _, _)
holding_dividends(transactions, symbol, holding, valid_dividend_data) ==
    IF valid_dividend_data = <<>> THEN <<>>
    ELSE LET dividend == Head(valid_dividend_data)
             rest == holding_dividends(transactions, symbol, holding,
                                       Tail(valid_dividend_data))
         IN  IF already_paid(transactions, holding, dividend)
             THEN rest
             ELSE << Transaction_new(
                       TransactionType("Dividend", holding.asset, holding.quantity),
                       payout_of(holding, dividend),
                       and_hms_opt_0(dividend.payment_date),
                       <<"Dividend payment for", symbol, dividend.payment_date>>) >>
                  \o rest

\* transactions_to_add of one account, its holdings visited in `order`
RECURSIVE transactions_to_add(_, _, _)
transactions_to_add(account, memo, order) ==
    IF order = <<>> THEN <<>>
    ELSE LET symbol == Head(order)
         IN  holding_dividends(account.transactions, symbol,
                               account.assets[symbol], memo[symbol])
             \o transactions_to_add(account, memo, Tail(order))

\* InvestmentAccount::add_transaction: log the payout and credit the balance
add_transaction(account, transaction) ==
    [account EXCEPT !.transactions = Append(@, transaction),
                    !.balance = @ + transaction.amount]

RECURSIVE add_transactions(_, _)
add_transactions(account, todo) ==
    IF todo = <<>> THEN account
    ELSE add_transactions(add_transaction(account, Head(todo)), Tail(todo))

\* the orders a HashMap may iterate a key set in
Orders(S) ==
    {o \in [1..Cardinality(S) -> S] : \A i, j \in DOMAIN o : o[i] = o[j] => i = j}

\* ------------------------------------------------------------------ state
\* ------------------------------------------------ f64 near 1.0 (IEEE 754)
\* The lots of account::InvestmentAccount hold fractional quantities.  An f64
\* is written here as ones * 1.0 + ulps * 2^-54 with a small |ulps|: around n
\* (1 <= n) the f64 are 2^(k+2) * 2^-54 apart, k the exponent of the binade.
\* All the values with ones = 0 and a small ulps are f64.
F64(ones, ulps) == [ones |-> ones, ulps |-> ulps]
F64_ZERO == F64(0, 0)

RECURSIVE Log2(_)
Log2(n) == IF n < 2 THEN 0 ELSE 1 + Log2(n \div 2)

RECURSIVE Pow2(_)
Pow2(k) == IF k <= 0 THEN 1 ELSE 2 * Pow2(k - 1)

f64_neg(a) == F64(-a.ones, -a.ulps)
f64_lt(a, b) == a.ones < b.ones \/ (a.ones = b.ones /\ a.ulps < b.ulps)
f64_gt(a, b) == f64_lt(b, a)

\* round to nearest, ties to even, of a value that is not negative
f64_round_abs(ones, ulps) ==
    IF ones = 0 THEN F64(0, ulps)
    ELSE LET below == ulps < 0 /\ ones = Pow2(Log2(ones))
             spacing == IF below THEN Pow2(Log2(ones) + 1)
                        ELSE Pow2(Log2(ones) + 2)
             rest == ulps % spacing
             lower == ulps - rest
         IN  IF 2 * rest < spacing THEN F64(ones, lower)
             ELSE IF 2 * rest > spacing THEN F64(ones, lower + spacing)
             ELSE IF lower % (2 * spacing) = 0 THEN F64(ones, lower)
             ELSE F64(ones, lower + spacing)

\* the f64 nearest to ones * 1.0 + ulps * 2^-54
f64_round(ones, ulps) ==
    IF ones < 0 \/ (ones = 0 /\ ulps < 0)
    THEN f64_neg(f64_round_abs(-ones, -ulps))
    ELSE f64_round_abs(ones, ulps)

\* a + b, a - b
f64_add(a, b) == f64_round(a.ones + b.ones, a.ulps + b.ulps)
f64_sub(a, b) == f64_round(a.ones - b.ones, a.ulps - b.ulps)
\* price * quantity, for a price that is a whole number
f64_mul(price, quantity) ==
    f64_round(price.ones * quantity.ones, price.ones * quantity.ulps)

\* ------------------------- account::InvestmentAccount (bank/mod.rs), by lots
\* StockHolding::new
StockHolding_new(price, quantity, symbol, purchase_date) ==
    [price |-> price, quantity |-> quantity, symbol |-> symbol,
     purchase_date |-> purchase_date]

\* investments: HashMap<String, Vec<StockHolding>>
NoInvestments == [s \in {} |-> <<>>]

account_InvestmentAccount_new(id, balance) ==
    [id |-> id, balance |-> balance, investments |-> NoInvestments]

account_InvestmentAccount_deposit(self, amount) ==
    LET acc == [self EXCEPT !.balance = f64_add(@, amount)]
    IN  [acc |-> acc, res |-> Ok(0)]

account_InvestmentAccount_withdraw(self, amount) ==
    IF f64_lt(self.balance, amount)
    THEN [acc |-> self, res |-> Err("InsufficientFunds")]
    ELSE [acc |-> [self EXCEPT !.balance = f64_sub(@, amount)],
          res |-> Ok(0)]

account_purchase_investment(self, symbol, price, quantity, now) ==
    LET total_cost == f64_mul(price, quantity)
        w == account_InvestmentAccount_withdraw(self, total_cost)
        holding == StockHolding_new(price, quantity, symbol, now)
        held == IF symbol \in DOMAIN w.acc.investments
                THEN w.acc.investments[symbol] ELSE <<>>
    IN  IF ~ w.res.ok THEN [acc |-> self, res |-> w.res]
        ELSE [acc |-> [w.acc EXCEPT !.investments =
                           MapInsert(@, symbol, Append(held, holding))],
              res |-> Ok(0)]

\* .iter().map(|h| h.get_quantity()).sum::<f64>()
RECURSIVE sum_quantities(_)
sum_quantities(holdings) ==
    IF holdings = <<>> THEN F64_ZERO
    ELSE f64_add(sum_quantities(SubSeq(holdings, 1, Len(holdings) - 1)),
                 holdings[Len(holdings)].quantity)

\* holdings.pop().unwrap() on an empty Vec
NonePanic == "panic: called Option::unwrap() on a None value"

\* the while loop of sell_investment
RECURSIVE sell_loop(_, _)
sell_loop(holdings, remaining_quantity) ==
    IF ~ f64_gt(remaining_quantity, F64_ZERO)
    THEN [holdings |-> holdings, res |-> Ok(0)]
    ELSE IF holdings = <<>>
    THEN [holdings |-> holdings, res |-> Err(NonePanic)]
    ELSE LET holding == holdings[Len(holdings)]
             popped == SubSeq(holdings, 1, Len(holdings) - 1)
             sale_quantity ==
                 IF f64_gt(remaining_quantity, holding.quantity)
                 THEN holding.quantity ELSE remaining_quantity
             new_holding ==
                 StockHolding_new(holding.price,
                                  f64_sub(holding.quantity, sale_quantity),
                                  holding.symbol, holding.purchase_date)
             left == IF f64_lt(sale_quantity, holding.quantity)
                     THEN Append(popped, new_holding) ELSE popped
         IN  sell_loop(left, f64_sub(remaining_quantity, sale_quantity))

\* A panic unwinds out of sell_investment: the lots popped so far are gone
\* and nothing is deposited.
account_sell_investment(self, symbol, price, quantity) ==
    IF symbol \notin DOMAIN self.investments
    THEN [acc |-> self, res |-> Err("InsufficientQuantity")]
    ELSE LET total_units == sum_quantities(self.investments[symbol])
             total_sale == f64_mul(price, quantity)
             sold == sell_loop(self.investments[symbol], quantity)
             kept == [self EXCEPT !.investments[symbol] = sold.holdings]
             pruned == IF Len(sold.holdings) = 0
                       THEN [kept EXCEPT !.investments = MapRemove(@, symbol)]
                       ELSE kept
         IN  IF f64_lt(total_units, quantity)
             THEN [acc |-> self, res |-> Err("InsufficientQuantity")]
             ELSE IF ~ sold.res.ok THEN [acc |-> kept, res |-> sold.res]
             ELSE [acc |-> account_InvestmentAccount_deposit(pruned, total_sale).acc,
                   res |-> Ok(0)]

VARIABLES
    checking,             \* a CheckingAccount
    investment_accounts,  \* Bank.investment_accounts: id -> InvestmentAccount
    lock,                 \* the tasks holding a MutexGuard of Arc<Mutex<Bank>>
    trader,               \* each trading task's position in Broker::buy / sell
    sweep,                \* the sweeping task's position in check_dividend_payments
    dividend_file,        \* ~/.cache/trading_engine/earliest_dividend_date.json
    hist,                 \* history of the sweeps (read by no operation)
    checking_accounts,    \* Bank.checking_accounts: id -> Account (bank/mod.rs)
    bank_result,          \* what the last call on the Bank returned
    bank_hist,            \* history of the Bank's calls (read by no operation)
    json,                 \* the String the last Bank::to_string returned
    cache_file,           \* time_series_intraday/<symbol>/<interval>/data.json
    wall_clock,           \* chrono::Utc::now(), in minutes
    loader,               \* the task inside Dataloader::get_time_series_intraday
    cache_writes,         \* the spawned tasks writing the cache file
    quote,                \* the last call of Broker::get_price and its result
    lot_account,          \* an account::InvestmentAccount (bank/mod.rs), by lots
    lot_result            \* what the last call on lot_account returned

ledger_vars == <<checking, investment_accounts, lock, trader, sweep,
                 dividend_file, hist>>
registry_vars == <<checking_accounts, bank_result, bank_hist, json>>
cache_vars == <<cache_file, wall_clock, loader, cache_writes>>
quote_vars == <<quote>>
lot_vars == <<lot_account, lot_result>>
vars == <<ledger_vars, registry_vars, cache_vars, quote_vars, lot_vars>>
bank_vars == <<checking, investment_accounts>>
broker_vars == <<lock, trader, sweep, dividend_file, hist>>

Traders == {"t1"}
Sweeper == "sweep"

RECURSIVE SumLen(_, _)
SumLen(f, S) ==
    IF S = {} THEN 0
    ELSE LET x == CHOOSE y \in S : TRUE
         IN  Len(SelectSeq(f[x].transactions,
                           LAMBDA t : t.transaction_type.kind # "Dividend"))
             + SumLen(f, S \ {x})

\* transactions appended so far by deposits, withdrawals, purchases and sales
Appended ==
    Len(checking.transactions) + SumLen(investment_accounts, InvestmentIds)

NoDateTime == [some |-> FALSE, day |-> 0, tod |-> 0]
Some(dt) == [some |-> TRUE, day |-> dt.day, tod |-> dt.tod]

IdleTrader == [pc |-> "idle", op |-> "", symbol |-> "", date_limit |-> NoDateTime,
               price |-> 0, at |-> NoDateTime, res |-> Ok(0)]
NoMemo == [s \in {} |-> <<>>]
IdleSweep == [pc |-> "idle", date |-> [day |-> 0, tod |-> 0],
              last_loaded |-> [day |-> 0, tod |-> 0],
              memo |-> NoMemo, todo |-> {}, cur |-> 0, symbol |-> "",
              res |-> Ok(0)]

\* ------------------------------------------------ the Bank's registry
\* An account id is a u32, kept at its full width as two 16-bit halves:
\* u32(hi, lo) is hi * 2^16 + lo.
Half == 65536
u32(hi, lo) == [hi |-> hi, lo |-> lo]
\* a small id
Id(n) == u32(0, n)
\* u32::MAX, the largest account id
U32_MAX == u32(Half - 1, Half - 1)
\* a <= b on u32
u32_le(a, b) == a.hi < b.hi \/ (a.hi = b.hi /\ a.lo <= b.lo)
u32_lt(a, b) == a # b /\ u32_le(a, b)
\* a + 1 on u32, wrapping at u32::MAX
u32_wrapping_add_1(a) ==
    IF a.lo + 1 < Half THEN u32(a.hi, a.lo + 1)
    ELSE u32((a.hi + 1) % Half, 0)

\* Account::new(id, balance, nickname) of bank/mod.rs; created_at is
\* chrono::Utc::now(), the instant `now` of the call
Account_new(id, balance, nickname, now) ==
    [id |-> id, balance |-> balance, nickname |-> nickname, created_at |-> now]

Account_deposit(self, amount) ==
    [acc |-> [self EXCEPT !.balance = @ + amount], res |-> Ok(self.balance + amount)]

Account_withdraw(self, amount) ==
    IF self.balance < amount
    THEN [acc |-> self, res |-> Err("InsufficientFunds")]
    ELSE [acc |-> [self EXCEPT !.balance = @ - amount],
          res |-> Ok(self.balance - amount)]

\* Bank::empty()
Bank_empty == [id \in {} |-> Account_new(Id(0), 0, [some |-> FALSE, val |-> ""], DateTime(0, 0))]

\* keys().max().unwrap_or(&0)
MaxKey(self) ==
    IF DOMAIN self = {} THEN Id(0)
    ELSE CHOOSE m \in DOMAIN self : \A k \in DOMAIN self : u32_le(k, m)

\* add_account inserting without the contains_key check
Bank_add_account_replaces(self, account) ==
    [bank |-> MapInsert(self, account.id, account), res |-> Ok(0)]

Bank_add_account(self, account) ==
    IF account.id \in DOMAIN self
    THEN [bank |-> self, res |-> Err("AccountAlreadyExists")]
    ELSE [bank |-> MapInsert(self, account.id, account), res |-> Ok(0)]

\* `max + 1` on u32: with overflow checks (debug builds) it panics at
\* u32::MAX, without them (release builds) it wraps to 0.  Ok(id) is
\* res = Ok(0) with the id in the field `id`.
Bank_open_account(self, nickname, now, overflow_checks) ==
    IF MaxKey(self) = U32_MAX /\ overflow_checks
    THEN [bank |-> self, id |-> Id(0),
          res |-> Err("panic: attempt to add with overflow")]
    ELSE LET id == u32_wrapping_add_1(MaxKey(self))
         IN  [bank |-> MapInsert(self, id, Account_new(id, 0, nickname, now)),
              id |-> id, res |-> Ok(0)]

\* close_account removing the account whatever its balance
Bank_close_account_any_balance(self, id) ==
    IF id \notin DOMAIN self
    THEN [bank |-> self, res |-> Err("AccountNotFound")]
    ELSE [bank |-> MapRemove(self, id), res |-> Ok(0)]

Bank_close_account(self, id) ==
    IF id \notin DOMAIN self
    THEN [bank |-> self, res |-> Err("AccountNotFound")]
    ELSE IF self[id].balance # 0
         THEN [bank |-> self, res |-> Err("CloseAccountWithBalance")]
         ELSE [bank |-> MapRemove(self, id), res |-> Ok(0)]

\* no call on the Bank yet
NoCall == [op |-> "", id |-> Id(0), res |-> Ok(0)]

\* ------------------------------------------- the Bank as a JSON document
\* #[derive(Serialize, Deserialize)] on Bank and on account::Account, written
\* and read by serde_json.  A JSON value is a tagged tuple.
JsonNull == <<"null">>
JsonNumber(n) == <<"number", n>>
JsonString(text) == <<"string", text>>

\* a u32 written in decimal: <<the digits above the last four, the last
\* four digits>>, since hi * 65536 + lo = (hi * 6) * 10^4 + hi * 5536 + lo
u32_to_decimal(a) ==
    LET low == a.hi * 5536 + a.lo
    IN  <<a.hi * 6 + (low \div 10000), low % 10000>>

\* a u32 read from decimal digits: an error above u32::MAX = 4294967295;
\* the value over 16 is upper * 625 + last_four / 16, and 65536 = 16 * 4096
decimal_to_u32(digits) ==
    IF digits[1] > 429496 \/ (digits[1] = 429496 /\ digits[2] > 7295)
    THEN Err("number out of range")
    ELSE LET sixteenth == digits[1] * 625 + (digits[2] \div 16)
         IN  Ok(u32(sixteenth \div 4096,
                    (sixteenth % 4096) * 16 + (digits[2] % 16)))

\* Serialize for Account: an object of the four fields.  The balance is a
\* finite f64 here and is written as a number; Option<String> is null or a
\* string; DateTime<Utc> is its RFC 3339 text.
Account_serialize(self) ==
    [id |-> JsonNumber(u32_to_decimal(self.id)),
     balance |-> JsonNumber(self.balance),
     nickname |-> IF self.nickname.some THEN JsonString(self.nickname.val)
                  ELSE JsonNull,
     created_at |-> JsonString(to_rfc3339(self.created_at))]

\* Deserialize for Account
Account_deserialize(object) ==
    LET id == IF object.id[1] = "number" THEN decimal_to_u32(object.id[2])
              ELSE Err("invalid type")
        created_at == IF object.created_at[1] = "string"
                      THEN parse_from_rfc3339(object.created_at[2])
                      ELSE [ok |-> FALSE, val |-> DateTime(0, 0)]
    IN  IF ~id.ok \/ object.balance[1] # "number" \/ ~created_at.ok
           \/ object.nickname[1] \notin {"null", "string"}
        THEN Err("serde_json::Error")
        ELSE Ok([id |-> id.val,
                 balance |-> object.balance[2],
                 nickname |-> IF object.nickname[1] = "null"
                              THEN [some |-> FALSE, val |-> ""]
                              ELSE [some |-> TRUE, val |-> object.nickname[2]],
                 created_at |-> created_at.val])

\* impl ToString for Bank: serde_json::to_string(self).unwrap().  The members
\* of checking_accounts are written in the order the HashMap iterates its
\* keys in, each key as a string of decimal digits.
Bank_to_string(self, order) ==
    [checking_accounts |->
        [i \in 1..Len(order) |->
            [key |-> JsonString(u32_to_decimal(order[i])),
             value |-> Account_serialize(self[order[i]])]]]

\* impl FromStr for Bank: serde_json::from_str(s).  The members are inserted
\* into a new HashMap one after the other, so of two members with one key
\* the later stays.
Bank_from_str(s) ==
    LET members == s.checking_accounts
        keys == [i \in DOMAIN members |-> decimal_to_u32(members[i].key[2])]
        accounts == [i \in DOMAIN members |-> Account_deserialize(members[i].value)]
        last(k) == CHOOSE i \in DOMAIN members :
                      /\ keys[i].val = k
                      /\ \A j \in DOMAIN members : keys[j].val = k => j <= i
    IN  IF \E i \in DOMAIN members : ~keys[i].ok \/ ~accounts[i].ok
        THEN [bank |-> Bank_empty, res |-> Err("serde_json::Error")]
        ELSE [bank |-> [k \in {keys[i].val : i \in DOMAIN members} |->
                           accounts[last(k)].val],
              res |-> Ok(0)]

\* no String yet
NoString == [some |-> FALSE, text |-> Bank_to_string(Bank_empty, <<>>)]

\* ------------------------------------------------------ the price cache
\* utils::CACHE_INVALIDATE_RATE = Duration::minutes(30), in minutes
CACHE_INVALIDATE_RATE == 30

\* the payloads the provider serves; the bytes of a file that was created
\* and not written yet are no JSON document
Payloads == {1, 2}
Empty == 0

\* the cache file before anything was fetched
NoFile == [exists |-> FALSE, modified |-> 0, content |-> Empty]

\* Dataloader::check_cache_file_valid: Ok(true) for a file that exists and
\* was modified less than invalidate_rate ago; io_ok is whether try_exists
\* and metadata succeed
check_cache_file_valid(file, now, io_ok) ==
    IF ~io_ok THEN Err("io")
    ELSE IF file.exists /\ now - file.modified < CACHE_INVALIDATE_RATE
         THEN Ok(1)
         ELSE Ok(0)

\* serde_json::from_slice(&data).unwrap()
from_slice_unwrap(data) ==
    IF data \in Payloads THEN Ok(data)
    ELSE Err(UnwrapPanic)

\* a task outside get_time_series_intraday, after n fetches
IdleLoader(n) ==
    [pc |-> "idle", n |-> n, seen |-> NoFile, age |-> 0, read |-> FALSE,
     cached |-> Empty, failed |-> "", calls |-> 0, spawned |-> <<>>,
     res |-> Ok(0)]

\* no call of get_price yet
NoQuote == [entries |-> <<>>, date_limit |-> NoDateTime, provider_ok |-> TRUE,
            res |-> Ok(0)]

\* the lot-based account starts with 4.0 and no lot
LotBalance == F64(4, 0)
\* no call on the lot-based account yet
NoLotCall == [op |-> "none", res |-> Ok(0), quantity |-> F64_ZERO, calls |-> 0]

Init ==
    /\ checking = CheckingAccount_new(1, 0)
    /\ investment_accounts = [id \in InvestmentIds |-> InvestmentAccount_new(id, 0)]
    /\ lock = {}
    /\ trader = [t \in Traders |-> IdleTrader]
    /\ sweep = IdleSweep
    /\ dividend_file = [exists |-> FALSE, text |-> <<>>]
    /\ hist = [quiet |-> FALSE, prev_date |-> [day |-> 0, tod |-> 0],
               prev_paid |-> {}, paid |-> {}]
    /\ checking_accounts = Bank_empty
    /\ bank_result = NoCall
    /\ bank_hist = [opened |-> <<>>, closed |-> {}, plain |-> TRUE, calls |-> 0]
    /\ json = NoString
    /\ cache_file = NoFile
    /\ wall_clock = 0
    /\ loader = IdleLoader(0)
    /\ cache_writes = <<>>
    /\ quote = NoQuote
    /\ lot_account = account_InvestmentAccount_new(1, LotBalance)
    /\ lot_result = NoLotCall

\* ------------------------------------------- direct account operations
\* Each runs inside one critical section of the Bank's Mutex: it needs the lock
\* free, and has released it when it returns.
\* an account operation ran: the last sweep is no longer the latest event
NotQuiet(h) == [h EXCEPT !.quiet = FALSE, !.prev_date = DateTime(0, 0),
                         !.prev_paid = {}]
Touch == hist' = NotQuiet(hist)

CheckingDeposit(amount) ==
    /\ lock = {} /\ Appended < MaxOps
    /\ LET r == CheckingAccount_deposit(checking, amount)
       IN  checking' = r.acc
    /\ Touch
    /\ UNCHANGED <<investment_accounts, lock, trader, sweep, dividend_file>>
    /\ UNCHANGED <<registry_vars, cache_vars, quote_vars, lot_vars>>

CheckingWithdraw(amount) ==
    /\ lock = {} /\ Appended < MaxOps
    /\ LET r == CheckingAccount_withdraw(checking, amount)
       IN  checking' = r.acc
    /\ Touch
    /\ UNCHANGED <<investment_accounts, lock, trader, sweep, dividend_file>>
    /\ UNCHANGED <<registry_vars, cache_vars, quote_vars, lot_vars>>

InvestmentDeposit(id, amount) ==
    /\ lock = {} /\ Appended < MaxOps
    /\ LET r == InvestmentAccount_deposit(investment_accounts[id], amount)
       IN  investment_accounts' = [investment_accounts EXCEPT ![id] = r.acc]
    /\ Touch
    /\ UNCHANGED <<checking, lock, trader, sweep, dividend_file>>
    /\ UNCHANGED <<registry_vars, cache_vars, quote_vars, lot_vars>>

InvestmentWithdraw(id, amount) ==
    /\ lock = {} /\ Appended < MaxOps
    /\ LET r == InvestmentAccount_withdraw(investment_accounts[id], amount)
       IN  investment_accounts' = [investment_accounts EXCEPT ![id] = r.acc]
    /\ Touch
    /\ UNCHANGED <<checking, lock, trader, sweep, dividend_file>>
    /\ UNCHANGED <<registry_vars, cache_vars, quote_vars, lot_vars>>

Purchase(id, symbol, price, quantity) ==
    /\ lock = {} /\ Appended < MaxOps
    /\ LET r == purchase_investment(investment_accounts[id], symbol, price, quantity)
       IN  investment_accounts' = [investment_accounts EXCEPT ![id] = r.acc]
    /\ Touch
    /\ UNCHANGED <<checking, lock, trader, sweep, dividend_file>>
    /\ UNCHANGED <<registry_vars, cache_vars, quote_vars, lot_vars>>

Sell(id, symbol, price, quantity) ==
    /\ lock = {} /\ Appended < MaxOps
    /\ LET r == sell_investment(investment_accounts[id], symbol, price, quantity)
       IN  investment_accounts' = [investment_accounts EXCEPT ![id] = r.acc]
    /\ Touch
    /\ UNCHANGED <<checking, lock, trader, sweep, dividend_file>>
    /\ UNCHANGED <<registry_vars, cache_vars, quote_vars, lot_vars>>

\* The ledger alone: one Checking and one Investment account, every operation
\* of accounts.rs called directly.
LedgerIds == {1}

LedgerNext ==
    \/ \E amount \in Amounts : CheckingDeposit(amount)
    \/ \E amount \in Amounts : CheckingWithdraw(amount)
    \/ \E id \in LedgerIds, amount \in Amounts : InvestmentDeposit(id, amount)
    \/ \E id \in LedgerIds, amount \in Amounts : InvestmentWithdraw(id, amount)
    \/ \E id \in LedgerIds, symbol \in Symbols, price \in Prices,
          quantity \in Quantities : Purchase(id, symbol, price, quantity)
    \/ \E id \in LedgerIds, symbol \in Symbols, price \in Prices,
          quantity \in Quantities : Sell(id, symbol, price, quantity)

SpecLedger == Init /\ [][LedgerNext]_vars

\* The example of the specification: one Investment account, a deposit of
\* 100, purchases and sales of AAPL at 10, 40 and 50.
ScenarioAmounts == {100}
ScenarioPrices == {10, 40, 50}
ScenarioQuantities == {1, 2}

ScenarioNext ==
    \/ \E amount \in ScenarioAmounts : InvestmentDeposit(1, amount)
    \/ \E price \in ScenarioPrices, quantity \in ScenarioQuantities :
          Purchase(1, "AAPL", price, quantity)
    \/ \E price \in ScenarioPrices, quantity \in ScenarioQuantities :
          Sell(1, "AAPL", price, quantity)

SpecScenario == Init /\ [][ScenarioNext]_vars

\* A Checking and an Investment account given the same calls: both start from
\* one balance, and each step calls deposit, or withdraw, on both with one
\* amount.  amount: f64 is not validated, so zero and negative amounts are
\* inputs too.
PairBalances == {0, 3}
PairAmounts == {-1, 0, 1, 2}
PairInvestment == 1

InitPair ==
    \E balance \in PairBalances :
       /\ checking = CheckingAccount_new(1, balance)
       /\ investment_accounts =
             [id \in InvestmentIds |->
                 InvestmentAccount_new(id, IF id = PairInvestment THEN balance
                                           ELSE 0)]
       /\ lock = {}
       /\ trader = [t \in Traders |-> IdleTrader]
       /\ sweep = IdleSweep
       /\ dividend_file = [exists |-> FALSE, text |-> <<>>]
       /\ hist = [quiet |-> FALSE, prev_date |-> [day |-> 0, tod |-> 0],
                  prev_paid |-> {}, paid |-> {}]
       /\ checking_accounts = Bank_empty
       /\ bank_result = NoCall
       /\ bank_hist = [opened |-> <<>>, closed |-> {}, plain |-> TRUE, calls |-> 0]
       /\ json = NoString
       /\ cache_file = NoFile
       /\ wall_clock = 0
       /\ loader = IdleLoader(0)
       /\ cache_writes = <<>>
       /\ quote = NoQuote
       /\ lot_account = account_InvestmentAccount_new(1, LotBalance)
       /\ lot_result = NoLotCall

PairDeposit(amount) ==
    /\ lock = {} /\ Len(checking.transactions) < MaxPairOps
    /\ checking' = CheckingAccount_deposit(checking, amount).acc
    /\ investment_accounts' =
          [investment_accounts EXCEPT ![PairInvestment] =
              InvestmentAccount_deposit(@, amount).acc]
    /\ Touch
    /\ UNCHANGED <<lock, trader, sweep, dividend_file>>
    /\ UNCHANGED <<registry_vars, cache_vars, quote_vars, lot_vars>>

PairWithdraw(amount) ==
    /\ lock = {} /\ Len(checking.transactions) < MaxPairOps
    /\ checking' = CheckingAccount_withdraw(checking, amount).acc
    /\ investment_accounts' =
          [investment_accounts EXCEPT ![PairInvestment] =
              InvestmentAccount_withdraw(@, amount).acc]
    /\ Touch
    /\ UNCHANGED <<lock, trader, sweep, dividend_file>>
    /\ UNCHANGED <<registry_vars, cache_vars, quote_vars, lot_vars>>

PairNext ==
    \/ \E amount \in PairAmounts : PairDeposit(amount)
    \/ \E amount \in PairAmounts : PairWithdraw(amount)

SpecPair == InitPair /\ [][PairNext]_vars

\* ------------------------------------------------------- the Bank's Mutex
\* a lock that is granted while another task holds a guard
MutexLock_shared(task) == lock' = lock \cup {task}
\* tokio::sync::Mutex::lock().await returning the guard to `task`
MutexLock(task) == lock = {} /\ lock' = lock \cup {task}
\* a guard that is forgotten, not dropped
MutexUnlock_forgets(task) == lock' = lock
\* the guard going out of scope
MutexUnlock(task) == lock' = lock \ {task}

\* ----------------------------------------------------- Broker::buy / sell
\* the instants chrono::Utc::now() may return to Broker::buy
Clock == {DateTime(2, 0), DateTime(2, 1), DateTime(2, 3)}
DateLimits == {NoDateTime, Some(DateTime(0, 0)), Some(DateTime(1, 3))}
Ops == {"buy", "sell"}
\* amounts deposited and withdrawn beside the broker
BrokerAmounts == {2}
\* quantities and account ids the broker is called with
TradeQuantities == {-1, 1}
TradeIds == InvestmentIds \cup UnknownIds

InFlight == Cardinality({t \in DOMAIN trader : trader[t].pc # "idle"})

\* buy / sell taking the Bank lock before the price lookup
Call_lock_first(t, op, symbol, date_limit) ==
    /\ trader[t].pc = "idle"
    /\ Appended + InFlight < MaxTrades
    /\ MutexLock(t)
    /\ trader' = [trader EXCEPT ![t] =
                    [IdleTrader EXCEPT !.pc = "get_price", !.op = op,
                                       !.symbol = symbol, !.date_limit = date_limit]]
    /\ UNCHANGED <<bank_vars, sweep, dividend_file, hist>>
    /\ UNCHANGED <<registry_vars, cache_vars, quote_vars, lot_vars>>

\* buy / sell is called: the price lookup starts
Call(t, op, symbol, date_limit) ==
    /\ trader[t].pc = "idle"
    /\ Appended + InFlight < MaxTrades
    /\ trader' = [trader EXCEPT ![t] =
                    [IdleTrader EXCEPT !.pc = "get_price", !.op = op,
                                       !.symbol = symbol, !.date_limit = date_limit]]
    /\ UNCHANGED <<bank_vars, lock, sweep, dividend_file, hist>>
    /\ UNCHANGED <<registry_vars, cache_vars, quote_vars, lot_vars>>

\* self.get_price(symbol, date_limit).await? returns
GetPriceReturn(t, provider_ok) ==
    /\ trader[t].pc = "get_price"
    /\ LET me == trader[t]
           r == IF provider_ok
                THEN get_price(TimeSeriesEntries(me.symbol), me.date_limit)
                ELSE Err("OtherAlphaVantage")
       IN  trader' = [trader EXCEPT ![t] =
             IF ~r.ok THEN [IdleTrader EXCEPT !.pc = "return", !.res = r]
             ELSE [me EXCEPT !.price = r.val,
                             !.pc = IF me.op = "buy" THEN "is_market_open" ELSE "lock"]]
    /\ UNCHANGED <<bank_vars, lock, sweep, dividend_file, hist>>
    /\ UNCHANGED <<registry_vars, cache_vars, quote_vars, lot_vars>>

\* self.is_market_open(symbol, date_limit.unwrap_or(now)).await? returns
IsMarketOpenReturn(t, provider_ok, now) ==
    /\ trader[t].pc = "is_market_open"
    /\ LET me == trader[t]
           ticker == IF provider_ok
                     THEN get_ticker(SearchEntries(me.symbol), me.symbol)
                     ELSE [ok |-> FALSE, err |-> "OtherAlphaVantage", val |-> <<>>]
           at == IF me.date_limit.some THEN me.date_limit ELSE Some(now)
       IN  trader' = [trader EXCEPT ![t] =
             IF ~ticker.ok
             THEN [IdleTrader EXCEPT !.pc = "return", !.res = Err(ticker.err)]
             ELSE IF ~is_market_open(ticker.val, at)
                  THEN [IdleTrader EXCEPT !.pc = "return", !.at = at,
                                          !.res = Err("Market is closed")]
                  ELSE [me EXCEPT !.pc = "lock", !.at = at,
                                  !.date_limit = NoDateTime]]
    /\ UNCHANGED <<bank_vars, lock, sweep, dividend_file, hist>>
    /\ UNCHANGED <<registry_vars, cache_vars, quote_vars, lot_vars>>

\* self.bank.lock().await returns
Acquire(t) ==
    /\ trader[t].pc = "lock"
    /\ MutexLock(t)
    /\ trader' = [trader EXCEPT ![t].pc = "locked"]
    /\ UNCHANGED <<bank_vars, sweep, dividend_file, hist>>
    /\ UNCHANGED <<registry_vars, cache_vars, quote_vars, lot_vars>>

\* get_investment_account_mut and purchase_investment / sell_investment
Commit(t, quantity, account_id) ==
    /\ trader[t].pc = "locked"
    /\ LET me == trader[t]
           r == IF me.op = "buy"
                THEN buy_locked(investment_accounts, me.symbol, me.price,
                                quantity, account_id)
                ELSE sell_locked(investment_accounts, me.symbol, me.price,
                                 quantity, account_id)
       IN  /\ investment_accounts' = r.accounts
           /\ trader' = [trader EXCEPT ![t] =
                          [IdleTrader EXCEPT !.pc = "return", !.op = me.op,
                                             !.res = r.res]]
    /\ Touch
    /\ UNCHANGED <<checking, lock, sweep, dividend_file>>
    /\ UNCHANGED <<registry_vars, cache_vars, quote_vars, lot_vars>>

\* buy / sell returns and its guard is dropped
Return(t) ==
    /\ trader[t].pc = "return"
    /\ MutexUnlock(t)
    /\ trader' = [trader EXCEPT ![t] = IdleTrader]
    /\ UNCHANGED <<bank_vars, sweep, dividend_file, hist>>
    /\ UNCHANGED <<registry_vars, cache_vars, quote_vars, lot_vars>>

\* ------------------------------------------ Broker::check_dividend_payments
SweepDates == {DateTime(d, 1) : d \in Days}

RECURSIVE DividendCount(_, _)
DividendCount(f, S) ==
    IF S = {} THEN 0
    ELSE LET x == CHOOSE y \in S : TRUE
         IN  Len(SelectSeq(f[x].transactions,
                           LAMBDA t : t.transaction_type.kind = "Dividend"))
             + DividendCount(f, S \ {x})

SweepCall(date) ==
    /\ sweep.pc = "idle"
    /\ DividendCount(investment_accounts, InvestmentIds) < MaxDividends
    /\ sweep' = [IdleSweep EXCEPT !.pc = "check_earliest_dividend", !.date = date]
    /\ hist' = [hist EXCEPT !.paid = {}]
    /\ UNCHANGED <<bank_vars, lock, trader, dividend_file>>
    /\ UNCHANGED <<registry_vars, cache_vars, quote_vars, lot_vars>>

SweepFinished == hist' = [hist EXCEPT !.quiet = TRUE, !.prev_date = sweep.date,
                                      !.prev_paid = hist.paid]

\* self.check_earliest_dividend(date).await returns
SweepCheckEarliest(io_ok) ==
    /\ sweep.pc = "check_earliest_dividend"
    /\ LET r == check_earliest_dividend(dividend_file, sweep.date, io_ok)
       IN  /\ dividend_file' = r.file
           /\ IF r.res.ok
              THEN /\ sweep' = [sweep EXCEPT !.pc = "lock", !.last_loaded = r.res.val]
                   /\ UNCHANGED hist
              ELSE /\ sweep' = [sweep EXCEPT
                                !.pc = "return",
                                !.res = IF r.res.err = UnwrapPanic
                                        THEN Err(UnwrapPanic) ELSE Err("OtherTokio")]
                   /\ UNCHANGED hist
    /\ UNCHANGED <<bank_vars, lock, trader>>
    /\ UNCHANGED <<registry_vars, cache_vars, quote_vars, lot_vars>>

\* self.bank.lock().await returns; the loop over the accounts starts
SweepAcquire ==
    /\ sweep.pc = "lock"
    /\ MutexLock(Sweeper)
    /\ sweep' = [sweep EXCEPT !.pc = "accounts", !.todo = DOMAIN investment_accounts]
    /\ UNCHANGED <<bank_vars, trader, dividend_file, hist>>
    /\ UNCHANGED <<registry_vars, cache_vars, quote_vars, lot_vars>>

\* the loop reaches the next account
SweepAccount(id) ==
    /\ sweep.pc = "accounts"
    /\ id \in sweep.todo
    /\ sweep' = [sweep EXCEPT !.pc = "holdings", !.cur = id]
    /\ UNCHANGED <<bank_vars, lock, trader, dividend_file, hist>>
    /\ UNCHANGED <<registry_vars, cache_vars, quote_vars, lot_vars>>

\* a holding whose symbol is not memoized: parse_valid_dividend_data is awaited
SweepLoad(symbol) ==
    /\ sweep.pc = "holdings"
    /\ symbol \in DOMAIN investment_accounts[sweep.cur].assets
    /\ ~memoized(sweep.memo, symbol)
    /\ sweep' = [sweep EXCEPT !.pc = "load_dividend_data", !.symbol = symbol]
    /\ UNCHANGED <<bank_vars, lock, trader, dividend_file, hist>>
    /\ UNCHANGED <<registry_vars, cache_vars, quote_vars, lot_vars>>

\* the provider answers; an error ends the sweep
SweepLoadReturn(provider_ok) ==
    /\ sweep.pc = "load_dividend_data"
    /\ IF provider_ok
       THEN sweep' = [sweep EXCEPT
              !.pc = "holdings", !.symbol = "",
              !.memo = MapInsert(@, sweep.symbol,
                         parse_valid_dividend_data(DividendData(sweep.symbol),
                                                   sweep.last_loaded, sweep.date))]
       ELSE sweep' = [sweep EXCEPT !.pc = "return", !.symbol = "", !.cur = 0,
                                   !.todo = {}, !.memo = NoMemo,
                                   !.res = Err("OtherAlphaVantage")]
    /\ UNCHANGED <<bank_vars, lock, trader, dividend_file, hist>>
    /\ UNCHANGED <<registry_vars, cache_vars, quote_vars, lot_vars>>

\* the symbols the account the loop is at holds
Held ==
    IF sweep.cur \in DOMAIN investment_accounts
    THEN DOMAIN investment_accounts[sweep.cur].assets ELSE {}

\* every holding of the account is visited: its transactions are added
SweepPay(order) ==
    /\ sweep.pc = "holdings"
    /\ DOMAIN investment_accounts[sweep.cur].assets \subseteq DOMAIN sweep.memo
    /\ LET account == investment_accounts[sweep.cur]
           todo == transactions_to_add(account, sweep.memo, order)
       IN  /\ investment_accounts' =
                [investment_accounts EXCEPT ![sweep.cur] = add_transactions(account, todo)]
           /\ hist' = [hist EXCEPT
                !.paid = @ \cup {<<sweep.cur, todo[i].transaction_type.asset,
                                   date_naive(todo[i].date)>> : i \in DOMAIN todo}]
    /\ sweep' = [sweep EXCEPT !.pc = "accounts", !.todo = @ \ {sweep.cur}, !.cur = 0]
    /\ UNCHANGED <<checking, lock, trader, dividend_file>>
    /\ UNCHANGED <<registry_vars, cache_vars, quote_vars, lot_vars>>

\* the loop is over: Ok(())
SweepDone ==
    /\ sweep.pc = "accounts"
    /\ sweep.todo = {}
    /\ sweep' = [sweep EXCEPT !.pc = "return", !.res = Ok(0), !.memo = NoMemo]
    /\ UNCHANGED <<bank_vars, lock, trader, dividend_file, hist>>
    /\ UNCHANGED <<registry_vars, cache_vars, quote_vars, lot_vars>>

\* check_dividend_payments returns and its guard is dropped
SweepReturn ==
    /\ sweep.pc = "return"
    /\ MutexUnlock(Sweeper)
    /\ sweep' = IdleSweep
    /\ SweepFinished
    /\ UNCHANGED <<bank_vars, trader, dividend_file>>
    /\ UNCHANGED <<registry_vars, cache_vars, quote_vars, lot_vars>>

Next ==
    \/ \E id \in InvestmentIds, amount \in BrokerAmounts :
          Appended + InFlight < MaxTrades /\ InvestmentDeposit(id, amount)
    \/ \E id \in InvestmentIds, amount \in BrokerAmounts :
          Appended + InFlight < MaxTrades /\ InvestmentWithdraw(id, amount)
    \/ \E t \in Traders, op \in Ops, symbol \in Symbols, date_limit \in DateLimits :
          Call(t, op, symbol, date_limit)
    \/ \E t \in Traders, provider_ok \in BOOLEAN : GetPriceReturn(t, provider_ok)
    \/ \E t \in Traders, provider_ok \in BOOLEAN, now \in Clock :
          IsMarketOpenReturn(t, provider_ok, now)
    \/ \E t \in Traders : Acquire(t)
    \/ \E t \in Traders, quantity \in TradeQuantities, account_id \in TradeIds :
          Commit(t, quantity, account_id)
    \/ \E t \in Traders : Return(t)
    \/ \E date \in SweepDates : SweepCall(date)
    \/ \E io_ok \in BOOLEAN : SweepCheckEarliest(io_ok)
    \/ SweepAcquire
    \/ \E id \in InvestmentIds : SweepAccount(id)
    \/ \E symbol \in Symbols : SweepLoad(symbol)
    \/ \E provider_ok \in BOOLEAN : SweepLoadReturn(provider_ok)
    \/ \E order \in Orders(Held) : SweepPay(order)
    \/ SweepDone
    \/ SweepReturn

Spec == Init /\ [][Next]_vars

\* Two tasks that buy on one funded account while it is withdrawn from.
Racers == {"t1", "t2"}
RaceBalance == 3
RaceAmounts == {2, 3}
RaceQuantities == {1, 2}
RaceIds == {1}
\* as_of: now (price 2) or the first entry of the series (price 1)
RaceLimits == {NoDateTime, Some(DateTime(0, 1))}

InitRace ==
    /\ checking = CheckingAccount_new(1, 0)
    /\ investment_accounts =
          [id \in InvestmentIds |->
              InvestmentAccount_new(id, IF id \in RaceIds THEN RaceBalance ELSE 0)]
    /\ lock = {}
    /\ trader = [t \in Racers |-> IdleTrader]
    /\ sweep = IdleSweep
    /\ dividend_file = [exists |-> FALSE, text |-> <<>>]
    /\ hist = [quiet |-> FALSE, prev_date |-> [day |-> 0, tod |-> 0],
               prev_paid |-> {}, paid |-> {}]
    /\ checking_accounts = Bank_empty
    /\ bank_result = NoCall
    /\ bank_hist = [opened |-> <<>>, closed |-> {}, plain |-> TRUE, calls |-> 0]
    /\ json = NoString
    /\ cache_file = NoFile
    /\ wall_clock = 0
    /\ loader = IdleLoader(0)
    /\ cache_writes = <<>>
    /\ quote = NoQuote
    /\ lot_account = account_InvestmentAccount_new(1, LotBalance)
    /\ lot_result = NoLotCall

\* a withdrawal made beside the buys
RaceWithdraw(id, amount) ==
    Appended + InFlight < MaxTrades /\ InvestmentWithdraw(id, amount)

RaceNext ==
    \/ \E id \in RaceIds, amount \in RaceAmounts : RaceWithdraw(id, amount)
    \/ \E t \in Racers, symbol \in Symbols, date_limit \in RaceLimits :
          Call(t, "buy", symbol, date_limit)
    \/ \E t \in Racers, provider_ok \in BOOLEAN : GetPriceReturn(t, provider_ok)
    \/ \E t \in Racers, provider_ok \in BOOLEAN, now \in Clock :
          IsMarketOpenReturn(t, provider_ok, now)
    \/ \E t \in Racers : Acquire(t)
    \/ \E t \in Racers, quantity \in RaceQuantities, account_id \in RaceIds :
          Commit(t, quantity, account_id)
    \/ \E t \in Racers : Return(t)

SpecRace == InitRace /\ [][RaceNext]_vars

\* Buys, sells and sweeps that contend for the lock, each task scheduled
\* fairly.  Account 1 starts funded and holding one AAPL, bought at 1, and a
\* first sweep has written the watermark.
LiveBalance == 3
LiveQuantities == {1, 2}
\* the account that holds AAPL, and an id no account has
LiveIds == {1, 9}
\* Utc::now() before the market opens and while it is open
LiveClock == {DateTime(2, 0), DateTime(2, 1)}
\* the instant the sweeps are called with, after a first sweep on day 1
LiveDates == {DateTime(2, 1)}

InitLive ==
    /\ checking = CheckingAccount_new(1, 0)
    /\ investment_accounts =
          [id \in InvestmentIds |->
              IF id = 1
              THEN purchase_investment(InvestmentAccount_new(id, LiveBalance),
                                       "AAPL", 1, 1).acc
              ELSE InvestmentAccount_new(id, 0)]
    /\ lock = {}
    /\ trader = [t \in Traders |-> IdleTrader]
    /\ sweep = IdleSweep
    /\ dividend_file = check_earliest_dividend([exists |-> FALSE, text |-> <<>>],
                                               DateTime(1, 1), TRUE).file
    /\ hist = [quiet |-> FALSE, prev_date |-> [day |-> 0, tod |-> 0],
               prev_paid |-> {}, paid |-> {}]
    /\ checking_accounts = Bank_empty
    /\ bank_result = NoCall
    /\ bank_hist = [opened |-> <<>>, closed |-> {}, plain |-> TRUE, calls |-> 0]
    /\ json = NoString
    /\ cache_file = NoFile
    /\ wall_clock = 0
    /\ loader = IdleLoader(0)
    /\ cache_writes = <<>>
    /\ quote = NoQuote
    /\ lot_account = account_InvestmentAccount_new(1, LotBalance)
    /\ lot_result = NoLotCall

\* what a task inside buy or sell does next, the lock apart
TraderStep(t) ==
    \/ \E provider_ok \in BOOLEAN : GetPriceReturn(t, provider_ok)
    \/ \E provider_ok \in BOOLEAN, now \in LiveClock :
          IsMarketOpenReturn(t, provider_ok, now)
    \/ \E quantity \in LiveQuantities, account_id \in LiveIds :
          Commit(t, quantity, account_id)
    \/ Return(t)

\* what the task inside check_dividend_payments does next, the lock apart
SweepStep ==
    \/ \E io_ok \in BOOLEAN : SweepCheckEarliest(io_ok)
    \/ \E id \in InvestmentIds : SweepAccount(id)
    \/ \E symbol \in Symbols : SweepLoad(symbol)
    \/ \E provider_ok \in BOOLEAN : SweepLoadReturn(provider_ok)
    \/ \E order \in Orders(Held) : SweepPay(order)
    \/ SweepDone
    \/ SweepReturn

LiveNext ==
    \/ \E t \in Traders, op \in Ops, symbol \in Symbols : Call(t, op, symbol, NoDateTime)
    \/ \E t \in Traders : TraderStep(t)
    \/ \E t \in Traders : Acquire(t)
    \/ \E date \in LiveDates : SweepCall(date)
    \/ SweepStep
    \/ SweepAcquire

\* every provider call and file operation returns, every task runs, and the
\* Mutex hands the lock to each task that waits for it, however often other
\* tasks take it
LiveFairness ==
    /\ \A t \in Traders : WF_vars(TraderStep(t)) /\ SF_vars(Acquire(t))
    /\ WF_vars(SweepStep)
    /\ SF_vars(SweepAcquire)

SpecLive == InitLive /\ [][LiveNext]_vars /\ LiveFairness

\* The sweep over accounts that hold different symbols: deposits and
\* purchases made directly, then sweeps.
SweepSymbols == {"AAPL", "MSFT"}
SweepAmounts == {2}
SweepPrices == {1}
SweepQuantities == {1}

SweepNext ==
    \/ \E id \in InvestmentIds, amount \in SweepAmounts : InvestmentDeposit(id, amount)
    \/ \E id \in InvestmentIds, symbol \in SweepSymbols, price \in SweepPrices,
          quantity \in SweepQuantities : Purchase(id, symbol, price, quantity)
    \/ \E date \in SweepDates : SweepCall(date)
    \/ \E io_ok \in BOOLEAN : SweepCheckEarliest(io_ok)
    \/ SweepAcquire
    \/ \E id \in InvestmentIds : SweepAccount(id)
    \/ \E symbol \in SweepSymbols : SweepLoad(symbol)
    \/ \E provider_ok \in BOOLEAN : SweepLoadReturn(provider_ok)
    \/ \E order \in Orders(Held) : SweepPay(order)
    \/ SweepDone
    \/ SweepReturn

SpecSweep == Init /\ [][SweepNext]_vars

\* ------------------------------------------------- the Bank's registry
\* ids handed to add_account and close_account, balances of added accounts
AddIds == {Id(0), Id(2), U32_MAX}
CloseIds == {Id(0), Id(1), Id(2), Id(3), U32_MAX}
AddBalances == {0, 1}
\* nicknames of the accounts, and the instants they are created at
NoNickname == [some |-> FALSE, val |-> ""]
Nicknames == {NoNickname, [some |-> TRUE, val |-> "Nickname"]}
CreatedAts == {DateTime(0, 1), DateTime(1, 0)}
\* the accounts the registry's calls are given: one without a nickname, and a
\* later one with a nickname
NewAccounts == {[nickname |-> NoNickname, now |-> DateTime(0, 1)],
                [nickname |-> [some |-> TRUE, val |-> "Nickname"],
                 now |-> DateTime(1, 0)]}

\* one more call on the Bank; `plain` while only open and close were called
Called(plain, opened, closed) ==
    bank_hist' = [opened |-> bank_hist.opened \o opened,
                  closed |-> bank_hist.closed \cup closed,
                  plain |-> bank_hist.plain /\ plain,
                  calls |-> bank_hist.calls + 1]

AddAccount(id, balance, nickname, now) ==
    /\ bank_hist.calls < MaxBankOps
    /\ LET r == Bank_add_account(checking_accounts,
                                 Account_new(id, balance, nickname, now))
       IN  /\ checking_accounts' = r.bank
           /\ bank_result' = [op |-> "add_account", id |-> id, res |-> r.res]
    /\ Called(FALSE, <<>>, {})
    /\ UNCHANGED <<json, ledger_vars, cache_vars, quote_vars, lot_vars>>

OpenAccount(nickname, now, overflow_checks) ==
    /\ bank_hist.calls < MaxBankOps
    /\ LET r == Bank_open_account(checking_accounts, nickname, now, overflow_checks)
       IN  /\ checking_accounts' = r.bank
           /\ bank_result' = [op |-> "open_account", id |-> r.id, res |-> r.res]
           /\ Called(TRUE, IF r.res.ok THEN <<r.id>> ELSE <<>>, {})
    /\ UNCHANGED <<json, ledger_vars, cache_vars, quote_vars, lot_vars>>

CloseAccount(id) ==
    /\ bank_hist.calls < MaxBankOps
    /\ LET r == Bank_close_account(checking_accounts, id)
       IN  /\ checking_accounts' = r.bank
           /\ bank_result' = [op |-> "close_account", id |-> id, res |-> r.res]
           /\ Called(TRUE, <<>>, IF r.res.ok THEN {id} ELSE {})
    /\ UNCHANGED <<json, ledger_vars, cache_vars, quote_vars, lot_vars>>

\* checking_accounts.get_mut(&id).unwrap().deposit(amount)
AccountDeposit(id, amount) ==
    /\ bank_hist.calls < MaxBankOps
    /\ id \in DOMAIN checking_accounts
    /\ LET r == Account_deposit(checking_accounts[id], amount)
       IN  /\ checking_accounts' = [checking_accounts EXCEPT ![id] = r.acc]
           /\ bank_result' = [op |-> "deposit", id |-> id, res |-> r.res]
    /\ Called(FALSE, <<>>, {})
    /\ UNCHANGED <<json, ledger_vars, cache_vars, quote_vars, lot_vars>>

AccountWithdraw(id, amount) ==
    /\ bank_hist.calls < MaxBankOps
    /\ id \in DOMAIN checking_accounts
    /\ LET r == Account_withdraw(checking_accounts[id], amount)
       IN  /\ checking_accounts' = [checking_accounts EXCEPT ![id] = r.acc]
           /\ bank_result' = [op |-> "withdraw", id |-> id, res |-> r.res]
    /\ Called(FALSE, <<>>, {})
    /\ UNCHANGED <<json, ledger_vars, cache_vars, quote_vars, lot_vars>>

\* let json = bank.to_string(): the registry is left as it is
BankToString ==
    /\ \E order \in Orders(DOMAIN checking_accounts) :
          json' = [some |-> TRUE, text |-> Bank_to_string(checking_accounts, order)]
    /\ bank_result' = [op |-> "to_string", id |-> Id(0), res |-> Ok(0)]
    /\ UNCHANGED <<checking_accounts, bank_hist, ledger_vars, cache_vars, quote_vars, lot_vars>>

\* bank = Bank::from_str(&json)?: the Bank read from the String takes the
\* place of the one at hand
BankFromStr ==
    /\ json.some
    /\ LET r == Bank_from_str(json.text)
       IN  /\ checking_accounts' = IF r.res.ok THEN r.bank ELSE checking_accounts
           /\ bank_result' = [op |-> "from_str", id |-> Id(0), res |-> r.res]
    /\ bank_hist' = [bank_hist EXCEPT !.plain = FALSE]
    /\ UNCHANGED <<json, ledger_vars, cache_vars, quote_vars, lot_vars>>

BankNext ==
    \/ \E id \in AddIds, balance \in AddBalances, new \in NewAccounts :
          AddAccount(id, balance, new.nickname, new.now)
    \/ \E new \in NewAccounts, overflow_checks \in BOOLEAN :
          OpenAccount(new.nickname, new.now, overflow_checks)
    \/ \E id \in CloseIds : CloseAccount(id)
    \/ \E id \in CloseIds, amount \in Amounts : AccountDeposit(id, amount)
    \/ \E id \in CloseIds, amount \in Amounts : AccountWithdraw(id, amount)

SpecBank == Init /\ [][BankNext]_vars

\* The Bank written to a String and read back, between calls that add, open
\* and credit accounts.
JsonIds == {Id(2), U32_MAX}
JsonAmounts == {1}
\* checking_accounts.len()
Members == Cardinality(DOMAIN checking_accounts)

\* add_account and open_account while the Bank has room
JsonAdd(id, nickname, now) ==
    Members < MaxMembers /\ AddAccount(id, 0, nickname, now)
JsonOpen(nickname, now) ==
    Members < MaxMembers /\ OpenAccount(nickname, now, TRUE)

JsonNext ==
    \/ \E id \in JsonIds, nickname \in Nicknames, now \in CreatedAts :
          JsonAdd(id, nickname, now)
    \/ \E nickname \in Nicknames, now \in CreatedAts : JsonOpen(nickname, now)
    \/ \E id \in JsonIds, amount \in JsonAmounts : AccountDeposit(id, amount)
    \/ BankToString
    \/ BankFromStr

SpecJson == Init /\ [][JsonNext]_vars

\* ------------------------------------------------------ the price cache
\* minutes that pass between two steps
Ticks == {10, 20}

Tick(minutes) ==
    /\ wall_clock + minutes <= MaxClock
    /\ wall_clock' = wall_clock + minutes
    /\ UNCHANGED <<cache_file, loader, cache_writes>>
    /\ UNCHANGED <<ledger_vars, registry_vars, quote_vars, lot_vars>>

\* get_time_series_intraday is called
LoaderCall ==
    /\ loader.pc = "idle"
    /\ loader.n < MaxFetches
    /\ loader' = [loader EXCEPT !.pc = "prepare_cache_directory"]
    /\ UNCHANGED <<cache_file, wall_clock, cache_writes>>
    /\ UNCHANGED <<ledger_vars, registry_vars, quote_vars, lot_vars>>

\* self.prepare_cache_directory(&cache_path).await?
PrepareCacheDirectory(io_ok) ==
    /\ loader.pc = "prepare_cache_directory"
    /\ loader' = IF io_ok
                 THEN [loader EXCEPT !.pc = "check_cache_file_valid"]
                 ELSE [loader EXCEPT !.pc = "return",
                                     !.failed = "prepare_cache_directory",
                                     !.seen = cache_file,
                                     !.age = wall_clock - cache_file.modified,
                                     !.res = Err("io")]
    /\ UNCHANGED <<cache_file, wall_clock, cache_writes>>
    /\ UNCHANGED <<ledger_vars, registry_vars, quote_vars, lot_vars>>

\* match self.check_cache_file_valid(&cache_path).await
CheckCacheFileValid(io_ok) ==
    /\ loader.pc = "check_cache_file_valid"
    /\ LET valid == check_cache_file_valid(cache_file, wall_clock, io_ok)
       IN  loader' = [loader EXCEPT
                        !.pc = IF valid = Ok(1) THEN "read" ELSE "client",
                        !.failed = IF io_ok THEN "" ELSE "check_cache_file_valid",
                        !.seen = cache_file,
                        !.age = wall_clock - cache_file.modified]
    /\ UNCHANGED <<cache_file, wall_clock, cache_writes>>
    /\ UNCHANGED <<ledger_vars, registry_vars, quote_vars, lot_vars>>

\* tokio::fs::read(cache_path).await? and serde_json::from_slice(..).unwrap()
ReadCache(io_ok) ==
    /\ loader.pc = "read"
    /\ loader' = [loader EXCEPT
                    !.pc = "return",
                    !.read = TRUE,
                    !.cached = cache_file.content,
                    !.failed = IF io_ok THEN "" ELSE "read",
                    !.res = IF io_ok THEN from_slice_unwrap(cache_file.content)
                            ELSE Err("io")]
    /\ UNCHANGED <<cache_file, wall_clock, cache_writes>>
    /\ UNCHANGED <<ledger_vars, registry_vars, quote_vars, lot_vars>>

\* get_time_series_intraday awaiting the cache write before it returns
ClientReturn_awaits_write(provider_ok, payload) ==
    /\ loader.pc = "client"
    /\ \E io_ok \in BOOLEAN :
         /\ loader' = [loader EXCEPT
                         !.pc = "return",
                         !.calls = @ + 1,
                         !.spawned = IF provider_ok THEN Append(@, payload) ELSE @,
                         !.res = IF ~provider_ok THEN Err("client")
                                 ELSE IF io_ok THEN Ok(payload) ELSE Err("io")]
         /\ cache_file' = IF ~provider_ok THEN cache_file
                          ELSE [exists |-> TRUE, modified |-> wall_clock,
                                content |-> IF io_ok THEN payload ELSE Empty]
    /\ UNCHANGED <<wall_clock, cache_writes>>
    /\ UNCHANGED <<ledger_vars, registry_vars, quote_vars, lot_vars>>

\* self.client.get_time_series_intraday(..).await.map_err(..)? and the
\* tokio::spawn of the write of the fresh payload
ClientReturn(provider_ok, payload) ==
    /\ loader.pc = "client"
    /\ loader' = [loader EXCEPT
                    !.pc = "return",
                    !.calls = @ + 1,
                    !.spawned = IF provider_ok THEN Append(@, payload) ELSE @,
                    !.res = IF provider_ok THEN Ok(payload) ELSE Err("client")]
    /\ cache_writes' = IF provider_ok
                       THEN Append(cache_writes,
                                   [pc |-> "spawned", string_data |-> payload])
                       ELSE cache_writes
    /\ UNCHANGED <<cache_file, wall_clock>>
    /\ UNCHANGED <<ledger_vars, registry_vars, quote_vars, lot_vars>>

\* get_time_series_intraday returns (or its task has panicked)
LoaderReturn ==
    /\ loader.pc = "return"
    /\ loader' = IdleLoader(loader.n + 1)
    /\ UNCHANGED <<cache_file, wall_clock, cache_writes>>
    /\ UNCHANGED <<ledger_vars, registry_vars, quote_vars, lot_vars>>

\* cache_writes without its i-th task
Without(i) ==
    [j \in 1..(Len(cache_writes) - 1) |->
        IF j < i THEN cache_writes[j] ELSE cache_writes[j + 1]]

\* tokio::fs::write, first half: the file is created or truncated
WriteCreate(i) ==
    /\ i \in DOMAIN cache_writes
    /\ cache_writes[i].pc = "spawned"
    /\ cache_file' = [exists |-> TRUE, modified |-> wall_clock, content |-> Empty]
    /\ cache_writes' = [cache_writes EXCEPT ![i].pc = "created"]
    /\ UNCHANGED <<wall_clock, loader>>
    /\ UNCHANGED <<ledger_vars, registry_vars, quote_vars, lot_vars>>

\* tokio::fs::write, second half: the bytes are written, or the write fails
\* and the spawned task panics on its unwrap
WriteComplete(i, io_ok) ==
    /\ i \in DOMAIN cache_writes
    /\ cache_writes[i].pc = "created"
    /\ cache_file' = IF io_ok
                     THEN [exists |-> TRUE, modified |-> wall_clock,
                           content |-> cache_writes[i].string_data]
                     ELSE cache_file
    /\ cache_writes' = Without(i)
    /\ UNCHANGED <<wall_clock, loader>>
    /\ UNCHANGED <<ledger_vars, registry_vars, quote_vars, lot_vars>>

CacheNext ==
    \/ \E minutes \in Ticks : Tick(minutes)
    \/ LoaderCall
    \/ \E io_ok \in BOOLEAN : PrepareCacheDirectory(io_ok)
    \/ \E io_ok \in BOOLEAN : CheckCacheFileValid(io_ok)
    \/ \E io_ok \in BOOLEAN : ReadCache(io_ok)
    \/ \E provider_ok \in BOOLEAN, payload \in Payloads :
          ClientReturn(provider_ok, payload)
    \/ LoaderReturn
    \/ \E i \in 1..MaxFetches : WriteCreate(i)
    \/ \E i \in 1..MaxFetches, io_ok \in BOOLEAN : WriteComplete(i, io_ok)

SpecCache == Init /\ [][CacheNext]_vars

\* -------------------------------------------------------- Broker::get_price
\* the series the provider returns: every selection, oldest first, of these
SeriesPool ==
    << [date |-> DateTime(0, 1), close |-> 1, adjusted_close |-> None],
       [date |-> DateTime(1, 1), close |-> 3, adjusted_close |-> SomeOf(2)],
       [date |-> DateTime(1, 3), close |-> 4, adjusted_close |-> None],
       [date |-> DateTime(2, 0), close |-> 5, adjusted_close |-> SomeOf(6)] >>

Pick(S) ==
    LET tagged == [i \in DOMAIN SeriesPool |-> [entry |-> SeriesPool[i], i |-> i]]
        kept == SelectSeq(tagged, LAMBDA x : x.i \in S)
    IN  [i \in DOMAIN kept |-> kept[i].entry]

Series == {Pick(S) : S \in SUBSET DOMAIN SeriesPool}

QuoteLimits ==
    {NoDateTime} \cup {Some(DateTime(d, tod)) : d \in Days, tod \in {0, 1, 2, 3}}

\* get_price(symbol, date_limit) is called and returns
GetPrice(entries, date_limit, provider_ok) ==
    /\ quote' = [entries |-> entries, date_limit |-> date_limit,
                 provider_ok |-> provider_ok,
                 res |-> IF provider_ok THEN get_price(entries, date_limit)
                         ELSE Err("OtherAlphaVantage")]
    /\ UNCHANGED <<ledger_vars, registry_vars, cache_vars, lot_vars>>

PriceNext ==
    \E entries \in Series, date_limit \in QuoteLimits, provider_ok \in BOOLEAN :
       GetPrice(entries, date_limit, provider_ok)

SpecPrice == Init /\ [][PriceNext]_vars

\* ------------------------------------------- the lot-based account's calls
\* One account::InvestmentAccount, its purchases and sales called directly.
\* quantity: f64 is any f64: 2^-54, 1 - 2^-53 and 1.0 are the inputs here.
LotSymbols == {"AAPL"}
LotPrices == {F64(1, 0), F64(2, 0)}
LotQuantities == {F64(0, 1), F64(1, -2), F64(1, 0)}
\* chrono::Utc::now() at the n-th call: the clock has moved between two calls
LotNow(n) == DateTime(n, 0)

\* the lots held of a symbol
LotsOf(acc, symbol) ==
    IF symbol \in DOMAIN acc.investments THEN acc.investments[symbol] ELSE <<>>

\* the task that panicked makes no further call
LotPanicked == lot_result.res = Err(NonePanic)

LotPurchase(symbol, price, quantity) ==
    /\ ~ LotPanicked
    /\ lot_result.calls < MaxLotOps
    /\ LET r == account_purchase_investment(lot_account, symbol, price,
                                            quantity,
                                            LotNow(lot_result.calls + 1))
       IN  /\ lot_account' = r.acc
           /\ lot_result' = [op |-> "purchase", res |-> r.res,
                             quantity |-> quantity,
                             calls |-> lot_result.calls + 1]
    /\ UNCHANGED <<ledger_vars, registry_vars, cache_vars, quote_vars>>

LotSell(symbol, price, quantity) ==
    /\ ~ LotPanicked
    /\ lot_result.calls < MaxLotOps
    /\ LET r == account_sell_investment(lot_account, symbol, price, quantity)
       IN  /\ lot_account' = r.acc
           /\ lot_result' = [op |-> "sell", res |-> r.res,
                             quantity |-> quantity,
                             calls |-> lot_result.calls + 1]
    /\ UNCHANGED <<ledger_vars, registry_vars, cache_vars, quote_vars>>

LotNext ==
    \/ \E symbol \in LotSymbols, price \in LotPrices,
          quantity \in LotQuantities : LotPurchase(symbol, price, quantity)
    \/ \E symbol \in LotSymbols, price \in LotPrices,
          quantity \in LotQuantities : LotSell(symbol, price, quantity)

SpecLots == Init /\ [][LotNext]_vars

\* =================================================================== claims
\* the signed cash effect of a transaction
SignedEffect(t) ==
    IF t.transaction_type.kind \in {"Deposit", "Sale", "Dividend"}
    THEN t.amount ELSE -t.amount

RECURSIVE SignedSum(_)
SignedSum(log) ==
    IF log = <<>> THEN 0 ELSE SignedSum(SubSeq(log, 1, Len(log) - 1))
                              + SignedEffect(log[Len(log)])

Kinds(log) == {log[i].transaction_type.kind : i \in DOMAIN log}

\* C1: every account, opened with balance 0, has after any sequence of
\* deposits, withdrawals, purchases and sales (accepted or rejected) a balance
\* equal to the sum of the signed cash effects of the transactions in its log.
C1_BalanceIsLedgerSum ==
    /\ checking.balance = SignedSum(checking.transactions)
    /\ \A id \in InvestmentIds :
          investment_accounts[id].balance =
              SignedSum(investment_accounts[id].transactions)

\* an Investment account whose log holds a deposit, a withdrawal, a purchase
\* and a sale, beside a Checking account that has withdrawn
C1_Witness ==
    \E id \in InvestmentIds :
       {"Deposit", "Withdraw", "Purchase", "Sale"} \subseteq Kinds(investment_accounts[id].transactions)

\* the Dividend transactions of a log, as (asset, payment date)
DividendKeys(log) ==
    {<<log[i].transaction_type.asset, date_naive(log[i].date)>> :
        i \in {j \in DOMAIN log : log[j].transaction_type.kind = "Dividend"}}

\* C2: over any sequence of sweeps interleaved with purchases and sales that
\* change the held quantity, no account's log holds two Dividend payouts for
\* the same (account, asset, payment date).
C2_NoDoubleDividend ==
    \A id \in InvestmentIds :
       LET log == investment_accounts[id].transactions
       IN  \A i, j \in DOMAIN log :
              (/\ i < j
               /\ log[i].transaction_type.kind = "Dividend"
               /\ log[j].transaction_type.kind = "Dividend"
               /\ log[i].transaction_type.asset = log[j].transaction_type.asset)
              => date_naive(log[i].date) # date_naive(log[j].date)

\* C3: a sweep run right after a sweep with the same target date, no account
\* operation in between, appends no Dividend for an (account, asset, payment
\* date) that the first one appended.
C3_SameSweepTwicePaysOnce ==
    (hist.quiet /\ sweep.pc # "idle" /\ sweep.date = hist.prev_date)
        => hist.paid \cap hist.prev_paid = {}

\* the second of two such sweeps has gone through the accounts, and the first
\* one had paid
C3_Witness ==
    /\ hist.quiet /\ sweep.pc = "return" /\ sweep.res.ok
    /\ sweep.date = hist.prev_date
    /\ hist.prev_paid # {}

\* the date the watermark file holds
Watermark == parse_from_rfc3339(dividend_file.text).val

\* C4: after a sweep with target date D returns Ok, the persisted watermark
\* equals D.
C4_WatermarkAdvances ==
    (sweep.pc = "return" /\ sweep.res.ok)
        => (dividend_file.exists /\ Watermark = sweep.date)

\* the dividend events of a symbol the sweep has to pay to an account: in the
\* history with a payment date in (watermark, D], and with no Dividend
\* transaction of that asset, quantity and date in the account's log
Unpaid(account, symbol) ==
    LET data == DividendData(symbol)
        holding == account.assets[symbol]
        log == account.transactions
    IN  {i \in DOMAIN data :
           /\ data[i].payment_date # NoDate
           /\ data[i].payment_date > Watermark.day
           /\ data[i].payment_date <= sweep.date.day
           /\ ~\E j \in DOMAIN log :
                 /\ log[j].transaction_type =
                       TransactionType("Dividend", symbol, holding.quantity)
                 /\ log[j].date.day = data[i].payment_date}

\* C5: for each unpaid dividend event the sweep appends one Dividend
\* transaction with amount = quantity held x dividend amount and timestamp =
\* payment date at midnight UTC, and raises the balance by exactly that amount.
C5_Payout ==
    [][(sweep.pc = "holdings" /\ sweep'.pc = "accounts") =>
         LET id == sweep.cur
             before == investment_accounts[id]
             after == investment_accounts'[id]
             n == Len(before.transactions)
             new == SubSeq(after.transactions, n + 1, Len(after.transactions))
             due == UNION {{<<symbol, i>> : i \in Unpaid(before, symbol)} :
                             symbol \in DOMAIN before.assets}
             Pays(t, e) ==
                 LET dividend == DividendData(e[1])[e[2]]
                 IN  /\ t.transaction_type =
                           TransactionType("Dividend", e[1],
                                           before.assets[e[1]].quantity)
                     /\ t.amount = before.assets[e[1]].quantity * dividend.amount
                     /\ t.date = [day |-> dividend.payment_date, tod |-> 0]
         IN  /\ SubSeq(after.transactions, 1, n) = before.transactions
             /\ \A e \in due :
                   Cardinality({k \in DOMAIN new : Pays(new[k], e)}) = 1
             /\ \A k \in DOMAIN new : \E e \in due : Pays(new[k], e)
             /\ after.balance = before.balance + SignedSum(new)
             /\ after.assets = before.assets
      ]_vars

\* a sweep has just paid an account a dividend it held shares for
C5_Witness ==
    /\ sweep.pc = "accounts"
    /\ hist.paid # {}

\* C6: the sweep never awaits the provider's dividend history while it holds
\* the Bank lock.
C6_NoProviderCallUnderLock ==
    ~(sweep.pc = "load_dividend_data" /\ Sweeper \in lock)

PriceErrors == {"Cannot find price", "OtherAlphaVantage", "No ticker found",
                "Market is closed"}

\* where a trading task stands agrees with the lock: no lookup under the
\* lock, the account touched only under it, a failed lookup never locked
Stage(t) ==
    /\ trader[t].pc \in {"idle", "get_price", "is_market_open", "lock"} => t \notin lock
    /\ trader[t].pc = "locked" => t \in lock
    /\ (trader[t].pc = "return" /\ trader[t].res.err \in PriceErrors) => t \notin lock

\* C7: buy and sell fetch the price and validate without the Bank lock, then
\* take the lock, change the account and append the transaction, then release
\* it; a failed price fetch or validation never takes the lock.
C7_BuySellOrder ==
    [][\A t \in Traders :
         /\ Stage(t) /\ Stage(t)'
         \* the lock is taken only once the price is known and validated
         /\ (t \notin lock /\ t \in lock') =>
               (trader[t].pc = "lock" /\ trader[t].price \in Prices)
         \* the account changes while the lock is held, before the release
         /\ (trader[t].pc = "locked" /\ trader'[t].pc # "locked") =>
               (t \in lock /\ t \in lock' /\ trader'[t].pc = "return")
         /\ (t \in lock /\ t \notin lock') =>
               (trader[t].pc = "return" /\ UNCHANGED bank_vars)
      ]_vars

\* a buy or a sell has changed an account and still holds the lock
C7_Witness ==
    \E t \in Traders :
       trader[t].pc = "return" /\ trader[t].res.ok /\ t \in lock

\* every change of the accounts by buy, sell or the sweep is made by the one
\* task that holds the lock
MutationsUnderLock ==
    [][(investment_accounts' # investment_accounts /\ lock # {}) =>
         \E h \in lock :
            /\ lock = {h} /\ h \in lock'
            /\ IF h = Sweeper THEN sweep' # sweep /\ trader' = trader
               ELSE sweep' = sweep /\ trader'[h] # trader[h]
                    /\ \A o \in Traders \ {h} : trader'[o] = trader[o]
      ]_vars

\* C8: at most one task holds the Bank lock, and under any interleaving of a
\* sweep with trades each account's balance equals the signed sum of its log
\* and no holding has a negative quantity.
C8_SafeUnderInterleaving ==
    /\ Cardinality(lock) <= 1
    /\ C1_BalanceIsLedgerSum
    /\ \A id \in InvestmentIds :
          \A symbol \in DOMAIN investment_accounts[id].assets :
             investment_accounts[id].assets[symbol].quantity >= 0

\* the part of C8 the code keeps: one holder, and a faithful ledger
C8_LockAndLedger ==
    /\ Cardinality(lock) <= 1
    /\ C1_BalanceIsLedgerSum

\* the amounts withdraw is tried with in every reachable state
WithdrawProbes == {-1, 0, 1, 2, 3}

\* what withdraw(amount) on `acc` must return and leave behind
WithdrawPost(acc, amount, r) ==
    IF acc.balance < amount
    THEN r.res = Err("InsufficientFunds") /\ r.acc = acc
    ELSE /\ r.res = Ok(acc.balance - amount)
         /\ r.acc.balance = acc.balance - amount
         /\ r.acc.balance >= 0
         /\ r.acc.transactions =
               Append(acc.transactions,
                      [transaction_type |-> [kind |-> "Withdraw", asset |-> "",
                                             quantity |-> 0],
                       amount |-> amount, date |-> UtcNow, description |-> <<>>])
         /\ r.acc = [acc EXCEPT !.balance = r.acc.balance,
                                !.transactions = r.acc.transactions]

WithdrawProbe ==
    /\ \A amount \in WithdrawProbes :
          WithdrawPost(checking, amount, CheckingAccount_withdraw(checking, amount))
    /\ \A id \in InvestmentIds, amount \in WithdrawProbes :
          WithdrawPost(investment_accounts[id], amount,
                       InvestmentAccount_withdraw(investment_accounts[id], amount))

\* C9: withdraw(amount) on a Checking or Investment account fails with
\* InsufficientFunds when balance < amount, leaving balance and log unchanged;
\* otherwise it subtracts amount, appends one Withdraw transaction and returns
\* the new balance; it never drives the balance negative.
C9_Withdraw ==
    [][/\ WithdrawProbe /\ WithdrawProbe'
       /\ \A amount \in Amounts :
             CheckingWithdraw(amount) =>
                 IF checking.balance < amount THEN checking' = checking
                 ELSE /\ checking'.balance = checking.balance - amount
                      /\ checking'.balance >= 0
                      /\ Len(checking'.transactions) = Len(checking.transactions) + 1
       /\ \A id \in LedgerIds, amount \in Amounts :
             InvestmentWithdraw(id, amount) =>
                 LET acc == investment_accounts[id]
                     after == investment_accounts'[id]
                 IN  IF acc.balance < amount THEN after = acc
                     ELSE /\ after.balance = acc.balance - amount
                          /\ after.balance >= 0
                          /\ Len(after.transactions) = Len(acc.transactions) + 1
      ]_vars

\* an account emptied by a withdrawal of its whole balance: one more
\* withdrawal is rejected there
C9_Witness ==
    \E id \in LedgerIds :
       LET acc == investment_accounts[id]
       IN  /\ acc.balance = 0
           /\ acc.transactions # <<>>
           /\ acc.transactions[Len(acc.transactions)].transaction_type.kind = "Withdraw"
           /\ ~InvestmentAccount_withdraw(acc, 1).res.ok

\* what sell(symbol, price, quantity) on `acc` must return and leave behind
SellPost(acc, symbol, quantity, r) ==
    /\ (symbol \notin DOMAIN acc.assets \/ acc.assets[symbol].quantity < quantity)
          => (r.res = Err("InsufficientQuantity") /\ r.acc = acc)
    /\ acc.balance >= 0 => r.acc.balance >= 0
    /\ \A s \in DOMAIN r.acc.assets :
          (s \in DOMAIN acc.assets /\ acc.assets[s].quantity >= 0)
              => r.acc.assets[s].quantity >= 0

\* C10: sell(symbol, price, quantity) fails with InsufficientQuantity when the
\* account has no holding for symbol or holds less than quantity, leaving
\* balance, holdings and log unchanged; a sell never drives a holding's
\* quantity or the balance negative.
C10_Sell ==
    [][\A id \in LedgerIds, symbol \in Symbols, price \in Prices,
          quantity \in Quantities :
          Sell(id, symbol, price, quantity) =>
              /\ SellPost(investment_accounts[id], symbol, quantity,
                          sell_investment(investment_accounts[id], symbol,
                                          price, quantity))
              /\ investment_accounts'[id].balance >= 0
                    \/ investment_accounts[id].balance < 0
      ]_vars

\* the part of C10 the code keeps: the rejections, and the held quantity
C10_SellRejects ==
    [][\A id \in LedgerIds, symbol \in Symbols, price \in Prices,
          quantity \in Quantities :
          Sell(id, symbol, price, quantity) =>
              LET acc == investment_accounts[id]
                  after == investment_accounts'[id]
              IN  /\ (symbol \notin DOMAIN acc.assets
                         \/ acc.assets[symbol].quantity < quantity)
                        => after = acc
                  /\ \A s \in DOMAIN after.assets :
                        (s \in DOMAIN acc.assets /\ acc.assets[s].quantity >= 0)
                            => after.assets[s].quantity >= 0
      ]_vars

\* what purchase(symbol, price, quantity) must do in `acc` when the funds
\* do not cover it
PurchaseRejectProbe ==
    \A id \in InvestmentIds, symbol \in Symbols, price \in Prices,
       quantity \in Quantities :
       LET acc == investment_accounts[id]
           r == purchase_investment(acc, symbol, price, quantity)
       IN  acc.balance < price * quantity
              => (r.res = Err("InsufficientFunds") /\ r.acc = acc)

\* C11: purchase(symbol, price, quantity) fails with InsufficientFunds when
\* balance < price*quantity and then changes nothing: balance, holdings and
\* transaction log are exactly as before.
C11_PurchaseRejects ==
    [][/\ PurchaseRejectProbe /\ PurchaseRejectProbe'
       /\ \A id \in LedgerIds, symbol \in Symbols, price \in Prices,
             quantity \in Quantities :
             (Purchase(id, symbol, price, quantity)
                 /\ investment_accounts[id].balance < price * quantity)
                => investment_accounts' = investment_accounts
      ]_vars

\* an account with money and a holding whose funds do not cover 1 unit at 2
C11_Witness ==
    \E id \in LedgerIds :
       LET acc == investment_accounts[id]
       IN  /\ acc.balance = 1
           /\ DOMAIN acc.assets # {}
           /\ ~purchase_investment(acc, "AAPL", 2, 1).res.ok

\* the average cost `avg` is the finite value num / den
IsQuotient(avg, num, den) ==
    avg.k = "fin" /\ den # 0 /\ avg.n * den = num * avg.d

\* q1@p1 then q2@p2 of a symbol `acc` does not hold: the holding after each
TwoPurchases(acc, symbol, p1, q1, p2, q2) ==
    LET r1 == purchase_investment(acc, symbol, p1, q1)
        r2 == purchase_investment(r1.acc, symbol, p2, q2)
    IN  /\ r1.res.ok
           => /\ symbol \in DOMAIN r1.acc.assets
              /\ r1.acc.assets[symbol].quantity = q1
              /\ r1.acc.assets[symbol].average_cost_per_unit = Real(p1)
        /\ (r1.res.ok /\ r2.res.ok)
           => /\ symbol \in DOMAIN r2.acc.assets
              /\ r2.acc.assets[symbol].quantity = q1 + q2
              /\ IsQuotient(r2.acc.assets[symbol].average_cost_per_unit,
                            q1 * p1 + q2 * p2, q1 + q2)

\* C12: after successful purchases of the same symbol the holding's quantity
\* is the sum of the purchased quantities and its average_cost_per_unit is
\* their quantity-weighted mean price, (q1*p1 + q2*p2)/(q1+q2); a first
\* purchase yields average cost = price.
C12_WeightedMean ==
    \A id \in LedgerIds, symbol \in Symbols, p1 \in Prices, p2 \in Prices,
       q1 \in Quantities, q2 \in Quantities :
       symbol \notin DOMAIN investment_accounts[id].assets
          => TwoPurchases(investment_accounts[id], symbol, p1, q1, p2, q2)

\* the part of C12 the code keeps: purchases of positive quantities
C12_PositiveQuantities ==
    \A id \in LedgerIds, symbol \in Symbols, p1 \in Prices, p2 \in Prices,
       q1 \in Quantities, q2 \in Quantities :
       (symbol \notin DOMAIN investment_accounts[id].assets /\ q1 > 0 /\ q2 > 0)
          => TwoPurchases(investment_accounts[id], symbol, p1, q1, p2, q2)

\* C13: a successful sell that leaves a positive remaining quantity leaves
\* the holding's average_cost_per_unit unchanged, reduces its quantity by
\* exactly the sold quantity and credits the balance by price*quantity.
C13_SellKeepsAverage ==
    [][\A id \in LedgerIds, symbol \in Symbols, price \in Prices,
          quantity \in Quantities :
          LET acc == investment_accounts[id]
              after == investment_accounts'[id]
          IN  (/\ Sell(id, symbol, price, quantity)
               /\ sell_investment(acc, symbol, price, quantity).res.ok
               /\ acc.assets[symbol].quantity - quantity > 0)
                 => /\ symbol \in DOMAIN after.assets
                    /\ after.assets[symbol].average_cost_per_unit
                          = acc.assets[symbol].average_cost_per_unit
                    /\ after.assets[symbol].quantity
                          = acc.assets[symbol].quantity - quantity
                    /\ after.balance = acc.balance + price * quantity
      ]_vars

\* 2 units bought at 1, then 1 sold at 2: 1 unit is left at average cost 1
C13_Witness ==
    \E id \in LedgerIds :
       LET acc == investment_accounts[id]
           n == Len(acc.transactions)
       IN  /\ n >= 2
           /\ acc.transactions[n].transaction_type.kind = "Sale"
           /\ acc.transactions[n].transaction_type.quantity = 1
           /\ acc.transactions[n].amount = 2
           /\ "AAPL" \in DOMAIN acc.assets
           /\ acc.assets["AAPL"].quantity = 1
           /\ acc.assets["AAPL"].average_cost_per_unit = Real(1)

\* C14: in every reachable state of an Investment account the holdings map
\* contains no holding whose quantity is 0.
C14_NoZeroHolding ==
    \A id \in InvestmentIds :
       \A s \in DOMAIN investment_accounts[id].assets :
          investment_accounts[id].assets[s].quantity # 0

\* the part of C14 the code keeps: selling all that is held removes the symbol
C14_SellAllRemoves ==
    \A id \in InvestmentIds, symbol \in Symbols, price \in Prices :
       LET acc == investment_accounts[id]
       IN  symbol \in DOMAIN acc.assets
              => LET r == sell_investment(acc, symbol, price,
                                          acc.assets[symbol].quantity)
                 IN  r.res.ok /\ symbol \notin DOMAIN r.acc.assets

\* C15: if purchase(s, p, q) succeeds and is immediately followed by
\* sell(s, p, q), the sell succeeds and the balance equals the balance before
\* the purchase.
C15_PurchaseThenSell ==
    \A id \in LedgerIds, symbol \in Symbols, price \in Prices,
       quantity \in Quantities :
       LET acc == investment_accounts[id]
           r1 == purchase_investment(acc, symbol, price, quantity)
           r2 == sell_investment(r1.acc, symbol, price, quantity)
       IN  r1.res.ok => (r2.res.ok /\ r2.acc.balance = acc.balance)

\* the part of C15 the code keeps: when the sell succeeds the balance is back
C15_BalanceRestored ==
    \A id \in LedgerIds, symbol \in Symbols, price \in Prices,
       quantity \in Quantities :
       LET acc == investment_accounts[id]
           r1 == purchase_investment(acc, symbol, price, quantity)
           r2 == sell_investment(r1.acc, symbol, price, quantity)
       IN  (r1.res.ok /\ r2.res.ok) => r2.acc.balance = acc.balance

\* C16: close(id) fails with AccountNotFound when id is not in the registry,
\* fails with CloseAccountWithBalance when the account's balance is not 0,
\* and in both cases leaves the registry unchanged; when the balance is
\* exactly 0 it succeeds and removes exactly that account, so a second close
\* of the same id fails with AccountNotFound.
C16_Close ==
    [][\A id \in CloseIds :
          CloseAccount(id) =>
             IF id \notin DOMAIN checking_accounts
             THEN /\ bank_result'.res = Err("AccountNotFound")
                  /\ checking_accounts' = checking_accounts
             ELSE IF checking_accounts[id].balance # 0
             THEN /\ bank_result'.res = Err("CloseAccountWithBalance")
                  /\ checking_accounts' = checking_accounts
             ELSE /\ bank_result'.res = Ok(0)
                  /\ DOMAIN checking_accounts' = DOMAIN checking_accounts \ {id}
                  /\ \A k \in DOMAIN checking_accounts' :
                        checking_accounts'[k] = checking_accounts[k]
                  /\ Bank_close_account(checking_accounts', id).res
                        = Err("AccountNotFound")
      ]_vars

\* the second close of an id closed before has just failed with
\* AccountNotFound, beside an account that could not be closed for its balance
C16_Witness ==
    /\ bank_result.op = "close_account"
    /\ bank_result.id \in bank_hist.closed
    /\ bank_result.res = Err("AccountNotFound")
    /\ \E k \in DOMAIN checking_accounts :
          Bank_close_account(checking_accounts, k).res
             = Err("CloseAccountWithBalance")

\* C17: ids are not reused after deletion: over any sequence of open and
\* close operations, an id returned by open is never equal to an id that an
\* earlier open returned for an account since closed, and the ids returned
\* by successive opens are strictly increasing.
C17_IdsNotReused ==
    [][\A nickname \in Nicknames, now \in CreatedAts, overflow_checks \in BOOLEAN :
          (OpenAccount(nickname, now, overflow_checks) /\ bank_hist.plain
              /\ bank_result'.res.ok)
             => /\ bank_result'.id \notin bank_hist.closed
                /\ \A i \in DOMAIN bank_hist.opened :
                      u32_lt(bank_hist.opened[i], bank_result'.id)
      ]_vars

\* the part of C17 the code keeps: open returns an id above every id in use
C17_AboveIdsInUse ==
    [][\A nickname \in Nicknames, now \in CreatedAts, overflow_checks \in BOOLEAN :
          (OpenAccount(nickname, now, overflow_checks) /\ bank_hist.plain
              /\ bank_result'.res.ok)
             => \A k \in DOMAIN checking_accounts : u32_lt(k, bank_result'.id)
      ]_vars

\* what open must return and leave behind, from the registry `before`
OpenPost(before, after, result, nickname, now) ==
    /\ result.res.ok
    /\ result.id \notin DOMAIN before
    /\ DOMAIN after = DOMAIN before \cup {result.id}
    /\ after[result.id] = Account_new(result.id, 0, nickname, now)
    /\ \A k \in DOMAIN before : after[k] = before[k]

\* C18: open never fails: for every registry state (including one holding an
\* account with the largest representable id, inserted through add_account)
\* it returns an id that was not in the registry before the call, inserts a
\* zero-balance account under it, and leaves every pre-existing account
\* unchanged.
C18_OpenNeverFails ==
    [][\A nickname \in Nicknames, now \in CreatedAts, overflow_checks \in BOOLEAN :
          OpenAccount(nickname, now, overflow_checks)
             => OpenPost(checking_accounts, checking_accounts', bank_result',
                         nickname, now)
      ]_vars

\* the part of C18 the code keeps: open in a registry without the id u32::MAX
C18_OpenBelowMax ==
    [][\A nickname \in Nicknames, now \in CreatedAts, overflow_checks \in BOOLEAN :
          (OpenAccount(nickname, now, overflow_checks)
              /\ U32_MAX \notin DOMAIN checking_accounts)
             => OpenPost(checking_accounts, checking_accounts', bank_result',
                         nickname, now)
      ]_vars


\* ------------------------------------------------------ the price cache
\* the file the fetch found was there and younger than the TTL
Fresh == loader.seen.exists /\ loader.age < CACHE_INVALIDATE_RATE

\* C19: a fetch that finds the cache file present and younger than the TTL
\* returns the cached payload and makes no provider call; a fetch that finds
\* it absent or of age >= TTL makes exactly one provider call and, having a
\* fresh payload, schedules one write of it.
C19_Fetch ==
    loader.pc = "return" =>
        IF Fresh
        THEN /\ loader.cached \in Payloads
             /\ loader.res = Ok(loader.cached)
             /\ loader.calls = 0
        ELSE /\ loader.calls = 1
             /\ loader.res.ok => loader.spawned = <<loader.res.val>>

\* What the code keeps of C19: when no file operation of the fetch fails and
\* the fresh file holds a payload, the fetch returns it without a provider
\* call; on a miss it makes one provider call and schedules one write of the
\* payload it returns, none when the provider fails.
C19_IntactFetch ==
    loader.pc = "return" /\ loader.failed = "" =>
        IF Fresh
        THEN loader.cached \in Payloads =>
                loader.res = Ok(loader.cached) /\ loader.calls = 0
        ELSE /\ loader.calls = 1
             /\ loader.spawned =
                   IF loader.res.ok THEN <<loader.res.val>> ELSE <<>>

\* a second fetch is served from the file the first one had written
C19_Hit ==
    /\ loader.pc = "return"
    /\ loader.n >= 1
    /\ Fresh
    /\ loader.res.ok
    /\ loader.calls = 0

\* C20: a fetch that finds the cache file fresh but cannot read it, or reads
\* bytes that are no payload, calls the provider and returns what the
\* provider returns: no panic, no error of the cache file.
C20_CorruptIsMiss ==
    loader.pc = "return" /\ Fresh
    /\ (loader.failed # "" \/ (loader.read /\ loader.cached \notin Payloads)) =>
        /\ loader.calls = 1
        /\ loader.res.ok \/ loader.res = Err("client")

\* What the code keeps of C20: a fresh file whose metadata cannot be read is
\* treated as a miss.
C20_CheckErrorIsMiss ==
    loader.pc = "return" /\ Fresh /\ loader.failed = "check_cache_file_valid" =>
        /\ loader.calls = 1
        /\ loader.res.ok \/ loader.res = Err("client")

\* C21: on a miss with the provider up, the fetch returns the payload the
\* provider gave, whether the spawned write of it has not started, has
\* created the file, has completed or has failed.
C21_MissReturnsFreshPayload ==
    loader.pc = "return" /\ loader.spawned # <<>> =>
        loader.res = Ok(loader.spawned[1])

\* the first fetch is about to return Ok while its own write has failed: the
\* file was created and holds no payload, and no write task is left
C21_WriteFailed ==
    /\ loader.pc = "return"
    /\ loader.n = 0
    /\ loader.spawned # <<>>
    /\ loader.res.ok
    /\ cache_writes = <<>>
    /\ cache_file.exists /\ cache_file.content = Empty

\* C22: with writes of the cache file pending, in progress or lost, every
\* fetch that reads the cache file returns a payload the provider returned:
\* it neither returns nor fails on the bytes of a half-written file.
C22_NeverPartialPayload ==
    loader.pc = "return" /\ loader.read /\ loader.failed = "" =>
        loader.res.ok /\ loader.res.val \in Payloads

\* What the code keeps of C22: a read that finds a whole payload returns it.
C22_WholeRead ==
    loader.pc = "return" /\ loader.read /\ loader.failed = ""
    /\ loader.cached \in Payloads =>
        loader.res = Ok(loader.cached)

\* ------------------------------------------------------------ Broker::buy
\* the time of day lies outside the trading hours of the symbol's ticker
OutsideHours(symbol, at) ==
    LET ticker == get_ticker(SearchEntries(symbol), symbol).val
    IN  at.tod < ticker.market_open \/ at.tod > ticker.market_close

\* a buy ends its lookups: the price lookup fails, or the market check returns
BuyLookupEnds(t) ==
    /\ trader[t].op = "buy"
    /\ \/ trader[t].pc = "get_price" /\ trader'[t].pc = "return"
       \/ trader[t].pc = "is_market_open" /\ trader'[t].pc # "is_market_open"

\* a task that has not taken the lock changes no account
NoChangeBeforeLock(t) ==
    (trader[t].pc \in {"idle", "get_price", "is_market_open"}
     /\ trader'[t] # trader[t]) => UNCHANGED bank_vars

\* C23: a buy with as_of returns the market-closed error exactly when the
\* time of day of as_of is before market_open or after market_close (of now
\* when as_of is absent); then, and when the price lookup fails, no account
\* changes.
C23_MarketClosedExactly ==
    [][\A t \in Traders :
         /\ NoChangeBeforeLock(t)
         /\ BuyLookupEnds(t) =>
              LET at == IF trader[t].date_limit.some THEN trader[t].date_limit
                        ELSE trader'[t].at
                  closed == /\ trader'[t].pc = "return"
                            /\ trader'[t].res = Err("Market is closed")
              IN  at.some => (closed <=> OutsideHours(trader[t].symbol, at))
      ]_vars

\* C23 amended: once the price and the ticker are found, a buy returns the
\* market-closed error exactly when the time of day of as_of (of now when
\* as_of is absent) is before market_open or after market_close, and goes on
\* to the lock otherwise; a buy that fails before the lock changes no account.
C23_MarketClosedOncePriced ==
    [][\A t \in Traders :
         /\ NoChangeBeforeLock(t)
         /\ (BuyLookupEnds(t) /\ trader'[t].at.some) =>
              LET at == trader'[t].at
                  closed == /\ trader'[t].pc = "return"
                            /\ trader'[t].res = Err("Market is closed")
              IN  /\ trader[t].pc = "is_market_open"
                  /\ trader[t].date_limit.some => at = trader[t].date_limit
                  /\ closed <=> OutsideHours(trader[t].symbol, at)
                  /\ ~closed => trader'[t].pc = "lock"
      ]_vars

\* a buy without as_of has been refused because now is after market_close
C23_Witness ==
    \E t \in Traders :
       /\ trader[t].pc = "return"
       /\ trader[t].res = Err("Market is closed")
       /\ trader[t].at = Some(DateTime(2, 3))

\* -------------------------------------------------------- Broker::get_price
\* the price the claim names: of the entries at or before as_of, the adjusted
\* close (the close without one) of the one with the latest timestamp
LatestPrice(entries, date_limit) ==
    LET K == {i \in DOMAIN entries :
                date_limit.some => DateTimeLe(entries[i].date, date_limit)}
    IN  IF K = {} THEN Err("Cannot find price")
        ELSE LET i == CHOOSE i \in K :
                        \A j \in K : DateTimeLe(entries[j].date, entries[i].date)
                 entry == entries[i]
             IN  Ok(IF entry.adjusted_close.some
                    THEN entry.adjusted_close.val ELSE entry.close)

\* C24: get_price returns the adjusted close (the close when there is none)
\* of the latest entry at or before as_of (of all entries without as_of), and
\* the price-unavailable error when no entry remains.
C24_GetPrice ==
    quote.provider_ok /\ quote # NoQuote =>
        quote.res = LatestPrice(quote.entries, quote.date_limit)

\* as_of lies between the second and the third of three entries, and the
\* price is the adjusted close of the second
C24_Witness ==
    /\ quote.provider_ok
    /\ Len(quote.entries) = 3
    /\ quote.date_limit = Some(DateTime(1, 2))
    /\ quote.entries[1].date = DateTime(0, 1)
    /\ quote.entries[2].date = DateTime(1, 1)
    /\ quote.res = Ok(2)
\* ------------------------------------------------------ the transaction log
\* `after` is `before` and one more transaction of this type and amount
AppendsOne(before, after, transaction_type, amount) ==
    /\ Len(after) = Len(before) + 1
    /\ SubSeq(after, 1, Len(before)) = before
    /\ after[Len(after)].transaction_type = transaction_type
    /\ after[Len(after)].amount = amount

\* what an operation that returned r leaves in the log of acc
Logged(acc, r, transaction_type, amount) ==
    IF r.res.ok
    THEN AppendsOne(acc.transactions, r.acc.transactions, transaction_type, amount)
    ELSE r.acc.transactions = acc.transactions

\* every operation, tried on an Investment account
InvestmentLogged(acc) ==
    /\ \A amount \in Amounts :
          /\ Logged(acc, InvestmentAccount_deposit(acc, amount), Deposit, amount)
          /\ Logged(acc, InvestmentAccount_withdraw(acc, amount), Withdraw, amount)
    /\ \A symbol \in Symbols, price \in Prices, quantity \in Quantities :
          /\ Logged(acc, purchase_investment(acc, symbol, price, quantity),
                    TransactionType("Purchase", symbol, quantity), price * quantity)
          /\ Logged(acc, sell_investment(acc, symbol, price, quantity),
                    TransactionType("Sale", symbol, quantity), price * quantity)

\* every operation, tried on a Checking account
CheckingLogged(acc) ==
    \A amount \in Amounts :
       /\ Logged(acc, CheckingAccount_deposit(acc, amount), Deposit, amount)
       /\ Logged(acc, CheckingAccount_withdraw(acc, amount), Withdraw, amount)

\* a log after a step: the log before it, or that and one more transaction
GrowsByOne(before, after) ==
    \/ after = before
    \/ Len(after) = Len(before) + 1 /\ SubSeq(after, 1, Len(before)) = before

\* C25: each successful deposit, withdraw, purchase or sell appends exactly
\* one transaction of its kind and amount to the log, a rejected one appends
\* none, and after every operation the log before it is a prefix of the log.
C25_AppendOnly ==
    [][/\ CheckingLogged(checking)
       /\ \A id \in LedgerIds : InvestmentLogged(investment_accounts[id])
       /\ GrowsByOne(checking.transactions, checking'.transactions)
       /\ \A id \in InvestmentIds :
             GrowsByOne(investment_accounts[id].transactions,
                        investment_accounts'[id].transactions)
      ]_vars

\* a log of a deposit, a purchase and a sale, on an account that can afford
\* neither a withdrawal of 2 nor a purchase of 2 at 2
C25_Witness ==
    \E id \in LedgerIds :
       LET acc == investment_accounts[id]
       IN  /\ Len(acc.transactions) = 3
           /\ acc.transactions[1].transaction_type = Deposit
           /\ acc.transactions[2].transaction_type.kind = "Purchase"
           /\ acc.transactions[3].transaction_type.kind = "Sale"
           /\ acc.balance < 2

\* ------------------------------------------------------------ the example
\* the log of the account is this sequence of <<type, amount>>
LogIs(acc, entries) ==
    /\ Len(acc.transactions) = Len(entries)
    /\ \A i \in DOMAIN entries :
          /\ acc.transactions[i].transaction_type = entries[i][1]
          /\ acc.transactions[i].amount = entries[i][2]

Deposit100 == <<Deposit, 100>>
Purchase2At10 == <<TransactionType("Purchase", "AAPL", 2), 2 * 10>>
Purchase1At40 == <<TransactionType("Purchase", "AAPL", 1), 1 * 40>>
Sell1At50 == <<TransactionType("Sale", "AAPL", 1), 1 * 50>>

\* C26: on a new Investment account, deposit 100 and purchase 2 AAPL at 10
\* give balance 80 and holding {2, avg 10}; 1 more at 40 gives {3, avg 20};
\* selling 1 at 50 gives balance 90 and holding {2, avg 20}.
C26_Scenario ==
    LET acc == investment_accounts[1]
    IN  /\ LogIs(acc, <<Deposit100, Purchase2At10>>) =>
              /\ acc.balance = 80
              /\ acc.assets = MapInsert(NoAssets, "AAPL", Holding_new(Real(10), 2, "AAPL"))
        /\ LogIs(acc, <<Deposit100, Purchase2At10, Purchase1At40>>) =>
              acc.assets = MapInsert(NoAssets, "AAPL", Holding_new(Real(20), 3, "AAPL"))
        /\ LogIs(acc, <<Deposit100, Purchase2At10, Purchase1At40, Sell1At50>>) =>
              /\ acc.balance = 90
              /\ acc.assets = MapInsert(NoAssets, "AAPL", Holding_new(Real(20), 2, "AAPL"))

\* the four operations of the example have run
C26_Witness ==
    LogIs(investment_accounts[1],
          <<Deposit100, Purchase2At10, Purchase1At40, Sell1At50>>)

\* ------------------------------------------------------ errors of the sweep
\* C27: a sweep that returns an error has paid nothing: no account's balance
\* or log differs from what it was when the sweep started.
C27_FailedSweepPaysNothing ==
    (sweep.pc = "return" /\ ~sweep.res.ok) => hist.paid = {}

\* What the code keeps of C27: a sweep that fails on the first symbol it
\* fetches has paid nothing.
C27_FirstFetchFails ==
    [][(sweep.pc = "load_dividend_data" /\ sweep.memo = NoMemo
        /\ sweep'.pc = "return") => hist'.paid = {}]_vars

\* ------------------------------------------------- the watermark's window
\* the transactions the sweep is about to add to the account it is at, its
\* holdings visited in any order
ToAdd ==
    UNION {LET todo == transactions_to_add(investment_accounts[sweep.cur],
                                           sweep.memo, order)
           IN  {todo[k] : k \in DOMAIN todo} : order \in Orders(Held)}

\* C28: the first sweep ever run, finding no watermark, persists its target
\* date as the watermark and pays nothing; every sweep pays a dividend only
\* if its payment date is after the watermark's date and on or before the
\* target date D.
C28_Window ==
    [][/\ (sweep.pc = "check_earliest_dividend" /\ sweep'.pc = "lock"
           /\ ~dividend_file.exists) =>
             /\ dividend_file'.exists
             /\ parse_from_rfc3339(dividend_file'.text).val = sweep.date
             /\ sweep'.last_loaded = sweep.date
       /\ (sweep.pc \in {"lock", "accounts", "holdings", "load_dividend_data"}) =>
             /\ dividend_file.exists
             /\ sweep.last_loaded = Watermark
       /\ (sweep.pc = "holdings" /\ Held \subseteq DOMAIN sweep.memo) =>
             \A t \in ToAdd :
                /\ date_naive(t.date) > date_naive(Watermark)
                /\ date_naive(t.date) <= date_naive(sweep.date)
       /\ (sweep.pc = "holdings" /\ Held \subseteq DOMAIN sweep.memo
           /\ Watermark = sweep.date) => ToAdd = {}
       /\ (sweep.pc = "return" /\ Watermark = sweep.date) => hist.paid = {}
      ]_vars

\* a sweep with a target date after the watermark's has paid an account that
\* held shares, and what it paid lies in the window
C28_Witness ==
    /\ sweep.pc = "accounts"
    /\ hist.paid # {}
    /\ date_naive(Watermark) < date_naive(sweep.date)
    /\ \A e \in hist.paid : e[3] > date_naive(Watermark) /\ e[3] <= date_naive(sweep.date)

\* the first sweep returns Ok, the accounts hold shares, nothing was paid
C28_FirstSweep ==
    /\ sweep.pc = "return" /\ sweep.res.ok
    /\ Watermark = sweep.date
    /\ \E id \in InvestmentIds : DOMAIN investment_accounts[id].assets # {}
    /\ hist.paid = {}

\* ------------------------------------------------- one fetch per symbol
\* the sweep goes on after this step
SweepGoesOn == sweep'.pc \in {"accounts", "holdings", "load_dividend_data"}

\* C29: within one sweep the dividend history of a symbol is fetched at most
\* once: a fetch starts only for a symbol that was not fetched yet, a fetch
\* that succeeds is remembered until the sweep returns, one that fails ends
\* the sweep.
C29_OneFetchPerSymbol ==
    [][/\ (sweep.pc # "load_dividend_data" /\ sweep'.pc = "load_dividend_data") =>
             sweep'.symbol \notin DOMAIN sweep.memo
       /\ sweep.pc = "load_dividend_data" =>
             \/ sweep' = sweep
             \/ sweep'.pc = "holdings" /\ sweep.symbol \in DOMAIN sweep'.memo
             \/ sweep'.pc = "return" /\ ~sweep'.res.ok
       /\ (sweep.pc \in {"accounts", "holdings", "load_dividend_data"}
           /\ SweepGoesOn) =>
             DOMAIN sweep.memo \subseteq DOMAIN sweep'.memo
      ]_vars

\* the sweep is at the second of two accounts that hold the same symbol, with
\* the history fetched for the first: it pays without fetching again
C29_Witness ==
    /\ sweep.pc = "holdings"
    /\ \E symbol \in DOMAIN sweep.memo :
          /\ symbol \in Held
          /\ \E id \in InvestmentIds \ sweep.todo :
                symbol \in DOMAIN investment_accounts[id].assets

\* ------------------------------------------------------------- no panic
Panics == {UnwrapPanic}

\* C30: no operation ends in a panic: neither a fetch through the price
\* cache nor a dividend sweep, whatever the state of the cache file and of
\* the watermark file and whatever the provider answers.
C30_NoPanic ==
    /\ loader.pc = "return" => loader.res.err \notin Panics
    /\ sweep.pc = "return" => sweep.res.err \notin Panics

\* What the code keeps of C30: a provider failure reaches the caller of a
\* fetch and of a sweep as an error value.
C30_ProviderFailureIsTyped ==
    [][/\ (loader.pc = "client" /\ loader'.pc = "return" /\ ~loader'.res.ok) =>
             loader'.res = Err("client")
       /\ (sweep.pc = "load_dividend_data" /\ sweep'.pc = "return") =>
             sweep'.res = Err("OtherAlphaVantage")
      ]_vars

\* ----------------------------------------------- the Bank as a document
\* the members of a document, whatever their order
MembersOf(document) ==
    {document.checking_accounts[i] : i \in DOMAIN document.checking_accounts}

\* C31: serializing a Bank and deserializing the result yields a Bank with
\* the same logical state (same ids, balances, nicknames, creation times),
\* and re-serializing it gives the same document as the original
\* serialization.
C31_RoundTrip ==
    [][/\ (BankFromStr /\ bank_result.op = "to_string")
            => /\ bank_result'.res.ok
               /\ checking_accounts' = checking_accounts
       /\ (BankToString /\ bank_result.op = "from_str" /\ bank_result.res.ok)
            => json'.text = json.text
      ]_vars

\* the part of C31 the code keeps: the Bank read back has the same accounts,
\* and its document has the same members
C31_SameLogicalState ==
    [][/\ (BankFromStr /\ bank_result.op = "to_string")
            => /\ bank_result'.res.ok
               /\ checking_accounts' = checking_accounts
       /\ (BankToString /\ bank_result.op = "from_str" /\ bank_result.res.ok)
            => /\ MembersOf(json'.text) = MembersOf(json.text)
               /\ Len(json'.text.checking_accounts) = Len(json.text.checking_accounts)
      ]_vars

\* a Bank of two accounts, one of them with the id u32::MAX and a nickname,
\* was read back from its document
C31_TwoAccountsReadBack ==
    /\ bank_result.op = "from_str" /\ bank_result.res.ok
    /\ Members = 2
    /\ U32_MAX \in DOMAIN checking_accounts
    /\ checking_accounts[U32_MAX].nickname.some
    /\ \E k \in DOMAIN checking_accounts : ~checking_accounts[k].nickname.some

\* ------------------------------------------------------------ add_account
\* C32: add_account(account) fails with AccountAlreadyExists when the
\* registry already holds an account with that id, leaving the registry and
\* the existing account unchanged; otherwise it inserts the account under
\* its own id with its fields (including created_at) preserved.
C32_AddAccount ==
    [][\A id \in AddIds, balance \in AddBalances, new \in NewAccounts :
          AddAccount(id, balance, new.nickname, new.now) =>
             IF id \in DOMAIN checking_accounts
             THEN /\ bank_result'.res = Err("AccountAlreadyExists")
                  /\ checking_accounts' = checking_accounts
             ELSE /\ bank_result'.res = Ok(0)
                  /\ DOMAIN checking_accounts' = DOMAIN checking_accounts \cup {id}
                  /\ checking_accounts'[id] =
                        [id |-> id, balance |-> balance,
                         nickname |-> new.nickname, created_at |-> new.now]
                  /\ \A k \in DOMAIN checking_accounts :
                        checking_accounts'[k] = checking_accounts[k]
      ]_vars

\* an add was rejected for the id of an account with a balance, in a registry
\* that holds an added account with a nickname and the later creation time
C32_Witness ==
    /\ bank_result.op = "add_account"
    /\ bank_result.res = Err("AccountAlreadyExists")
    /\ bank_result.id \in DOMAIN checking_accounts
    /\ checking_accounts[bank_result.id].balance # 0
    /\ U32_MAX \in DOMAIN checking_accounts
    /\ bank_result.id # U32_MAX
    /\ checking_accounts[U32_MAX].nickname.some
    /\ checking_accounts[U32_MAX].created_at = DateTime(1, 0)

\* -------------------------------------------------------- concurrent buys
\* C33: when two or more buys (or a buy and a withdraw) on the same account
\* run concurrently and their combined cost exceeds the balance, the funds
\* check and the debit of each are done atomically under the Bank lock, so at
\* most those that fit succeed and the balance never becomes negative under
\* any interleaving.
C33_AtomicDebit ==
    [][/\ \A id \in InvestmentIds : investment_accounts'[id].balance >= 0
       /\ Cardinality(lock') <= 1
       /\ investment_accounts' # investment_accounts
             => \/ lock = {}
                \/ \E t \in Racers : lock = {t} /\ trader[t].pc = "locked"
       /\ \A t \in Racers, quantity \in RaceQuantities, id \in RaceIds :
             Commit(t, quantity, id) =>
                /\ lock = {t}
                /\ LET before == investment_accounts[id].balance
                       cost == trader[t].price * quantity
                   IN  IF before < cost
                       THEN /\ trader'[t].res = Err("InsufficientFunds")
                            /\ investment_accounts' = investment_accounts
                       ELSE /\ trader'[t].res = Ok(before - cost)
                            /\ investment_accounts'[id].balance = before - cost
      ]_vars

\* one buy has debited the account and still holds the lock, while the other
\* buy, priced before that debit, waits for the lock and no longer fits
C33_Witness ==
    \E t \in Racers, o \in Racers :
       /\ t # o
       /\ trader[t].pc = "lock"
       /\ trader[o].pc = "return" /\ trader[o].op = "buy" /\ trader[o].res.ok
       /\ lock = {o}
       /\ \E id \in RaceIds :
             /\ investment_accounts[id].balance < trader[t].price
             /\ investment_accounts[id].balance >= 0

\* ------------------------------------------------------ the lock is released
\* C34: the Bank lock is released on every exit path of buy, sell and the
\* dividend sweep, including AccountNotFound, InsufficientFunds,
\* InsufficientQuantity and provider errors; hence, provided every provider
\* call eventually returns and the lock is granted fairly, every buy, sell
\* and sweep that starts eventually completes (no deadlock, no lock held
\* forever).
C34_LockReleased ==
    /\ [](\A t \in Traders : trader[t].pc = "idle" => t \notin lock)
    /\ [](sweep.pc = "idle" => Sweeper \notin lock)
    /\ \A t \in Traders : (trader[t].pc # "idle") ~> (trader[t].pc = "idle")
    /\ (sweep.pc # "idle") ~> (sweep.pc = "idle")

\* a sell is about to return InsufficientQuantity with the guard still alive,
\* while the sweep waits for the lock
C34_Witness ==
    \E t \in Traders :
       /\ trader[t].pc = "return" /\ trader[t].op = "sell"
       /\ trader[t].res = Err("InsufficientQuantity")
       /\ lock = {t}
       /\ sweep.pc = "lock"

\* ------------------------------------------------ what buy and sell return
\* C35: Broker buy and sell on an account id that is not an Investment
\* account in the Bank return AccountNotFound and change no account; on
\* success buy returns the account's balance after the purchase, equal to
\* the balance before minus price x quantity, and sell returns the balance
\* before plus price x quantity.
C35_BuySellReturn ==
    [][\A t \in Traders, quantity \in TradeQuantities, account_id \in TradeIds :
          Commit(t, quantity, account_id) =>
             IF account_id \notin DOMAIN investment_accounts
             THEN /\ trader'[t].res = Err("AccountNotFound")
                  /\ investment_accounts' = investment_accounts
                  /\ checking' = checking
             ELSE trader'[t].res.ok =>
                     LET before == investment_accounts[account_id].balance
                         after == investment_accounts'[account_id].balance
                         total == trader[t].price * quantity
                     IN  /\ trader'[t].res.val = after
                         /\ after = IF trader[t].op = "buy" THEN before - total
                                    ELSE before + total
                         /\ \A o \in DOMAIN investment_accounts \ {account_id} :
                               investment_accounts'[o] = investment_accounts[o]
      ]_vars

\* a sell on an id no account has is about to return AccountNotFound, in a
\* Bank whose accounts hold money
C35_Witness ==
    \E t \in Traders :
       /\ trader[t].pc = "return" /\ trader[t].op = "sell"
       /\ trader[t].res = Err("AccountNotFound")
       /\ \E id \in InvestmentIds : investment_accounts[id].balance > 0

\* a buy is about to return the balance left after its purchase
C35_BuyReturnsBalance ==
    \E t \in Traders, id \in InvestmentIds :
       /\ trader[t].pc = "return" /\ trader[t].op = "buy" /\ trader[t].res.ok
       /\ Len(investment_accounts[id].transactions) > 1
       /\ investment_accounts[id].transactions[
              Len(investment_accounts[id].transactions)].transaction_type.kind
             = "Purchase"
       /\ trader[t].res.val = investment_accounts[id].balance


\* ------------------------------------- Checking and Investment, side by side
\* the kinds and amounts of a transaction log, in order
KindsAndAmounts(transactions) ==
    [i \in 1..Len(transactions) |->
        <<transactions[i].transaction_type.kind, transactions[i].amount>>]

\* C36: for any sequence of deposit and withdraw calls with the same
\* arguments, an Investment account and a Checking account started from the
\* same balance return the same results at every step and end with the same
\* balance and the same sequence of transaction kinds and amounts.
C36_SameAsChecking ==
    [][\A amount \in PairAmounts :
          LET inv == investment_accounts[PairInvestment]
              inv_after == investment_accounts'[PairInvestment]
              same == /\ inv_after.balance = checking'.balance
                      /\ KindsAndAmounts(inv_after.transactions)
                            = KindsAndAmounts(checking'.transactions)
          IN  /\ PairDeposit(amount) =>
                    /\ InvestmentAccount_deposit(inv, amount).res
                          = CheckingAccount_deposit(checking, amount).res
                    /\ same
              /\ PairWithdraw(amount) =>
                    /\ InvestmentAccount_withdraw(inv, amount).res
                          = CheckingAccount_withdraw(checking, amount).res
                    /\ same
      ]_vars

\* both accounts have had a deposit, then a withdrawal of more than the
\* balance refused, then one granted
C36_Witness ==
    LET inv == investment_accounts[PairInvestment]
    IN  /\ Len(inv.transactions) = 2 /\ Len(checking.transactions) = 2
        /\ inv.transactions[1].transaction_type.kind = "Deposit"
        /\ inv.transactions[2].transaction_type.kind = "Withdraw"
        /\ inv.balance = 1 /\ checking.balance = 1
        /\ ~ InvestmentAccount_withdraw(inv, 2).res.ok
        /\ ~ CheckingAccount_withdraw(checking, 2).res.ok


\* ------------------------------------------------ selling lots (bank/mod.rs)
\* the units held in a list of lots, added without rounding
RECURSIVE exact_units(_)
exact_units(holdings) ==
    IF holdings = <<>> THEN F64_ZERO
    ELSE LET rest == exact_units(SubSeq(holdings, 1, Len(holdings) - 1))
         IN  F64(rest.ones + holdings[Len(holdings)].quantity.ones,
                 rest.ulps + holdings[Len(holdings)].quantity.ulps)

\* after is before with its most recent lots taken away, the last lot left
\* being either whole or a part of the lot that stood there, with that lot's
\* price, symbol and purchase date
TakenFromTheBack(before, after) ==
    /\ Len(after) <= Len(before)
    /\ \A i \in 1..Len(after) :
          \/ after[i] = before[i]
          \/ /\ i = Len(after)
             /\ after[i].price = before[i].price
             /\ after[i].symbol = before[i].symbol
             /\ after[i].purchase_date = before[i].purchase_date
             /\ f64_lt(after[i].quantity, before[i].quantity)
             /\ f64_gt(after[i].quantity, F64_ZERO)

\* what the claim says of one sale
SoldAsClaimed(symbol, price, quantity) ==
    LET before == LotsOf(lot_account, symbol)
        after == LotsOf(lot_account', symbol)
    IN  /\ lot_result'.res = Ok(0)
        /\ exact_units(after)
              = F64(exact_units(before).ones - quantity.ones,
                    exact_units(before).ulps - quantity.ulps)
        /\ TakenFromTheBack(before, after)
        /\ symbol \in DOMAIN lot_account'.investments => after # <<>>
        /\ lot_account'.balance
              = f64_add(lot_account.balance, f64_mul(price, quantity))

\* C37: in the lot-based InvestmentAccount, sell_investment with
\* 0 < quantity <= total held units terminates without popping from an empty
\* lot list, reduces the sum of lot quantities for the symbol by exactly
\* quantity, consumes lots from the most recently purchased backwards while
\* keeping the price and purchase date of a partially sold lot, removes the
\* symbol key when no lot remains, and credits price x quantity to the
\* balance.
C37_SellLots ==
    [][\A symbol \in LotSymbols, price \in LotPrices, quantity \in LotQuantities :
          (/\ LotSell(symbol, price, quantity)
           /\ f64_gt(quantity, F64_ZERO)
           /\ ~ f64_lt(exact_units(LotsOf(lot_account, symbol)), quantity))
          => SoldAsClaimed(symbol, price, quantity)
      ]_vars

\* a sale of exactly the units held, in three lots, has popped from the
\* empty list: the sale panicked, the lots are gone and nothing was credited
C37_EmptyPop ==
    /\ lot_result.op = "sell" /\ LotPanicked
    /\ lot_result.calls = 4
    /\ lot_result.quantity = F64(1, 0)
    /\ LotsOf(lot_account, "AAPL") = <<>>
    /\ "AAPL" \in DOMAIN lot_account.investments

====
